---- MODULE Spec2Model ----
(***************************************************************************)
(* Email verification tokens and email-change reconciliation of the        *)
(* persona package: the token codec, the tokens provider, the              *)
(* withEmailManagement mixin and the updateUserEmail / verifyEmail actions *)
(* built on top of them.                                                   *)
(*                                                                         *)
(* Strings are sequences of UTF-8 bytes (0..255).  A public token value is *)
(* a sequence of characters: 0..63 are the characters of the base64url     *)
(* alphabet (by their index), DOT is "." and BAD is a character outside    *)
(* the alphabet.                                                           *)
(***************************************************************************)
EXTENDS Integers, Sequences, FiniteSets, TLC

\* ------------------------------------------------------------------ bounds
MaxUsers == 2
MaxTokens == 2
MaxTicks == 2
SecretLen == 1
CodecLen == 3
DecodeLen == 5

\* ------------------------------------------------------- program constants
\* options.expiresIn || '1 day', in seconds
ExpiresIn == 86400

\* ----------------------------------------------------------------- domains
Null == "null"
Emails == {"a@x.com", "b@y.com", "c@z.com"}
UserIds == 1..MaxUsers
\* string.random() yields URL-safe characters; two of them ("a", "b")
SecretChars == {97, 98}
\* how far the clock may move in one step
TickSteps == {ExpiresIn}
DOT == 64
BAD == DOT + 1
\* a value that is not a string (null, undefined), where a string is expected
NullString == << 0 - 1 >>

\* ------------------------------------------------------------------- codec
\* String(identifier) for a number: its decimal digits as bytes
RECURSIVE StringOf(_)
StringOf(n) ==
  IF n < 10 THEN << 48 + n >>
  ELSE StringOf(n \div 10) \o << 48 + (n % 10) >>

\* decimal digits to the number they write; a number of more than six digits
\* is no identifier of a row and stops at 1000000. Of more than six digits
\* the last six are read when all before them are 0.
RECURSIVE numberOf(_)
numberOf(ds) ==
  IF Len(ds) = 0 THEN 0
  ELSE IF Len(ds) > 6
  THEN IF \E i \in 1..(Len(ds) - 6) : ds[i] # 0 THEN 1000000
       ELSE numberOf(SubSeq(ds, Len(ds) - 5, Len(ds)))
  ELSE LET n == numberOf(SubSeq(ds, 1, Len(ds) - 1)) * 10 + ds[Len(ds)]
       IN IF n > 999999 THEN 1000000 ELSE n

\* the exponent of a decimal literal as the database reads it: digit by
\* digit, e * 10 + digit while e is less than 10000, and 10000 from then on
\* whatever digits follow. Five digits, after any zeros, are read as they
\* are written; more than five are read as 10000.
decimalExponent(ed) ==
  IF Len(ed) > 5 /\ \E i \in 1..(Len(ed) - 5) : ed[i] # 0 THEN 10000
  ELSE numberOf(ed)

\* The database reads a decimal literal as a double. Around an integer n
\* with 2^k <= n < 2^(k+1) the doubles lie 2^(k-52) apart above n and, when
\* n = 2^k, half as far apart below it: a literal less than half such a step
\* away from n reads as n. The reader keeps some nineteen digits of the
\* literal and rounds more than once, so that a literal within 1/32 of the
\* halfway point reads as n on some builds of the database and not on
\* others. The digits of 31/64 and 33/64, to be halved 52 - k times:
NearLow == << 4, 8, 4, 3, 7, 5 >>
NearHigh == << 5, 1, 5, 6, 2, 5 >>

\* the digits of half the decimal fraction 0.ds from the i-th on; ds ends
\* in an odd digit, which leaves one digit more
RECURSIVE halved(_, _)
halved(ds, i) ==
  IF i > Len(ds) + 1 THEN << >>
  ELSE << (10 * (IF i > 1 THEN ds[i - 1] % 2 ELSE 0)
             + (IF i > Len(ds) THEN 0 ELSE ds[i])) \div 2 >> \o halved(ds, i + 1)

RECURSIVE halvedTimes(_, _)
halvedTimes(ds, n) ==
  IF n = 0 THEN ds
  ELSE CHOOSE h \in {halved(half, 1) : half \in {halvedTimes(ds, n - 1)}} : TRUE

\* the two ends of the doubtful stretch around the halfway point 2^(-n-1),
\* worked out once (@@ lists the function in full)
HalfSteps ==
  [n \in 33..53 |-> [low |-> halvedTimes(NearLow, n), high |-> halvedTimes(NearHigh, n)]]
    @@ << >>

\* 0.a < 0.b for two sequences of decimal digits that agree before the
\* i-th digit
RECURSIVE lessFrom(_, _, _)
lessFrom(a, b, i) ==
  IF i > Len(b) THEN FALSE
  ELSE IF i > Len(a) THEN b[i] # 0 \/ lessFrom(a, b, i + 1)
  ELSE IF a[i] # b[i] THEN a[i] < b[i]
  ELSE lessFrom(a, b, i + 1)
fractionLess(a, b) == lessFrom(a, b, 1)

\* the digits of 1 - 0.ds, for ds ending in a digit other than 0
complement(ds) == [i \in 1..Len(ds) |-> IF i = Len(ds) THEN 10 - ds[i] ELSE 9 - ds[i]]

\* the binary exponent of the double n, for 0 < n < 2^20
exponentOf(n) == CHOOSE k \in 0..19 : 2^k <= n /\ n < 2^(k + 1)

\* the integer the double of n + 0.f is, for a digit sequence f that starts
\* with 0: n, or none (0 - 1); lax tells how the build reads a doubtful one
readAbove(n, f, lax) ==
  IF fractionLess(f, HalfSteps[52 - exponentOf(n)].low) THEN n
  ELSE IF fractionLess(HalfSteps[52 - exponentOf(n)].high, f) THEN 0 - 1
  ELSE IF lax THEN n ELSE 0 - 1

\* the integer the double of n - 1 + 0.f is, for f that starts with 9
readBelow(n, f, lax) ==
  LET k == (IF 2^exponentOf(n) = n THEN 53 ELSE 52) - exponentOf(n)
  IN IF fractionLess(complement(HalfSteps[k].low), f) THEN n
     ELSE IF fractionLess(f, complement(HalfSteps[k].high)) THEN 0 - 1
     ELSE IF lax THEN n ELSE 0 - 1

\* the integer the double of n + 0.f is, 0 - 1 when it is none
doubleOf(n, f, lax) ==
  IF n >= 1000000 THEN 1000000
  ELSE IF \A i \in 1..Len(f) : f[i] = 0 THEN n
  ELSE IF f[1] = 0 THEN IF n > 0 THEN readAbove(n, f, lax) ELSE 0 - 1
  ELSE IF f[1] = 9 THEN readBelow(n + 1, f, lax)
  ELSE 0 - 1

\* the integer a decimal literal is read as, 0 - 1 when it is read as none:
\* neg its sign, D the digits before and after the point, fl how many of them
\* follow the point, esign the sign of the exponent (0 without one), ed its
\* digits
integerValue(neg, D, fl, esign, ed, lax) ==
  IF Len(D) < 1 \/ (esign # 0 /\ Len(ed) < 1) THEN 0 - 1
  ELSE LET scale == esign * decimalExponent(ed) - fl
           v == IF scale >= 0
                THEN numberOf(D \o [n \in 1..(IF scale > 7 THEN 7 ELSE scale) |-> 0])
                ELSE IF 0 - scale > Len(D)
                THEN IF \E n \in 1..Len(D) : D[n] # 0 THEN 0 - 1 ELSE 0
                ELSE doubleOf(numberOf(SubSeq(D, 1, Len(D) + scale)),
                              SubSeq(D, Len(D) + scale + 1, Len(D)), lax)
       IN IF neg /\ v > 0 THEN 0 - 1 ELSE v

\* reads a decimal literal byte by byte from position i: white space, a sign,
\* digits, a point and digits, an exponent, white space. A NUL byte ends the
\* text on some builds of the database (lax) and is a character that is no
\* part of a number on the others.
RECURSIVE scanInteger(_, _, _, _, _, _, _, _, _)
scanInteger(bs, i, ph, neg, D, fl, esign, ed, lax) ==
  IF i > Len(bs) THEN integerValue(neg, D, fl, esign, ed, lax)
  ELSE IF bs[i] = 0 THEN
    IF lax THEN integerValue(neg, D, fl, esign, ed, lax) ELSE 0 - 1
  ELSE IF bs[i] \in {9, 10, 11, 12, 13, 32} THEN
    IF ph \in {"lead", "exp0", "exp1"}
    THEN IF ph = "lead" THEN scanInteger(bs, i + 1, ph, neg, D, fl, esign, ed, lax)
         ELSE 0 - 1
    ELSE scanInteger(bs, i + 1, "trail", neg, D, fl, esign, ed, lax)
  ELSE IF bs[i] >= 48 /\ bs[i] <= 57 THEN
    IF ph \in {"lead", "int"}
    THEN scanInteger(bs, i + 1, "int", neg, Append(D, bs[i] - 48), fl, esign, ed, lax)
    ELSE IF ph = "frac"
    THEN scanInteger(bs, i + 1, "frac", neg, Append(D, bs[i] - 48), fl + 1, esign, ed, lax)
    ELSE IF ph \in {"exp0", "exp1", "exp"}
    THEN scanInteger(bs, i + 1, "exp", neg, D, fl, esign, Append(ed, bs[i] - 48), lax)
    ELSE 0 - 1
  ELSE IF bs[i] \in {43, 45} THEN
    IF ph = "lead"
    THEN scanInteger(bs, i + 1, "int", bs[i] = 45, D, fl, esign, ed, lax)
    ELSE IF ph = "exp0"
    THEN scanInteger(bs, i + 1, "exp1", neg, D, fl, IF bs[i] = 45 THEN 0 - 1 ELSE 1, ed, lax)
    ELSE 0 - 1
  ELSE IF bs[i] = 46 THEN
    IF ph \in {"lead", "int"}
    THEN scanInteger(bs, i + 1, "frac", neg, D, fl, esign, ed, lax)
    ELSE 0 - 1
  ELSE IF bs[i] \in {69, 101} THEN
    IF ph \in {"int", "frac"}
    THEN scanInteger(bs, i + 1, "exp0", neg, D, fl, 1, ed, lax)
    ELSE 0 - 1
  ELSE 0 - 1

\* where({ id: text }) on the integer id column: a text that is a decimal
\* literal (white space around it, a sign, a fraction and an exponent
\* allowed) is compared as the double it is read as, and matches the row
\* whose id that double is; any other text matches no row (0 - 1). lax is
\* the build of the database, where builds differ. Identifiers start at 1,
\* so a literal too small to tell from 0 matches no row either.
integerOf(text, lax) ==
  CHOOSE n \in {scanInteger(bs, 1, "lead", FALSE, << >>, 0, 0, << >>, lax) : bs \in {text}} : TRUE

\* variant: only whole groups of three bytes are encoded
RECURSIVE urlEncodeWhole(_)
urlEncodeWhole(bs) ==
  IF Len(bs) < 3 THEN << >>
  ELSE << bs[1] \div 4, (bs[1] % 4) * 16 + (bs[2] \div 16),
          (bs[2] % 16) * 4 + (bs[3] \div 64), bs[3] % 64 >>
         \o urlEncodeWhole(SubSeq(bs, 4, Len(bs)))

\* Buffer.from(str).toString('base64url'): three bytes make four
\* characters, no padding
RECURSIVE urlEncode(_)
urlEncode(bs) ==
  IF Len(bs) = 0 THEN << >>
  ELSE IF Len(bs) = 1 THEN
    << bs[1] \div 4, (bs[1] % 4) * 16 >>
  ELSE IF Len(bs) = 2 THEN
    << bs[1] \div 4, (bs[1] % 4) * 16 + (bs[2] \div 16), (bs[2] % 16) * 4 >>
  ELSE
    << bs[1] \div 4, (bs[1] % 4) * 16 + (bs[2] \div 16),
       (bs[2] % 16) * 4 + (bs[3] \div 64), bs[3] % 64 >>
      \o urlEncode(SubSeq(bs, 4, Len(bs)))

\* Buffer.from(chars, 'base64url') on characters of the alphabet: four
\* characters make three bytes, a trailing group of 2 or 3 characters makes
\* 1 or 2 bytes and its left-over bits are dropped
RECURSIVE rawDecode(_)
rawDecode(cs) ==
  IF Len(cs) < 2 THEN << >>
  ELSE IF Len(cs) = 2 THEN
    << cs[1] * 4 + (cs[2] \div 16) >>
  ELSE IF Len(cs) = 3 THEN
    << cs[1] * 4 + (cs[2] \div 16), (cs[2] % 16) * 16 + (cs[3] \div 4) >>
  ELSE
    << cs[1] * 4 + (cs[2] \div 16), (cs[2] % 16) * 16 + (cs[3] \div 4),
       (cs[3] % 4) * 64 + cs[4] >>
      \o rawDecode(SubSeq(cs, 5, Len(cs)))

\* bytes that survive .toString('utf-8') unchanged: well-formed UTF-8
RECURSIVE IsUtf8(_)
IsUtf8(bs) ==
  LET n == Len(bs)
      cont(i) == i <= n /\ bs[i] >= 128 /\ bs[i] <= 191
      rest(k) == IsUtf8(SubSeq(bs, k, n))
  IN IF n = 0 THEN TRUE
     ELSE IF bs[1] < 128 THEN rest(2)
     ELSE IF bs[1] >= 194 /\ bs[1] <= 223 THEN cont(2) /\ rest(3)
     ELSE IF bs[1] = 224 THEN cont(2) /\ bs[2] >= 160 /\ cont(3) /\ rest(4)
     ELSE IF bs[1] = 237 THEN cont(2) /\ bs[2] <= 159 /\ cont(3) /\ rest(4)
     ELSE IF bs[1] >= 225 /\ bs[1] <= 239 THEN cont(2) /\ cont(3) /\ rest(4)
     ELSE IF bs[1] = 240 THEN
       cont(2) /\ bs[2] >= 144 /\ cont(3) /\ cont(4) /\ rest(5)
     ELSE IF bs[1] = 244 THEN
       cont(2) /\ bs[2] <= 143 /\ cont(3) /\ cont(4) /\ rest(5)
     ELSE IF bs[1] >= 241 /\ bs[1] <= 243 THEN
       cont(2) /\ cont(3) /\ cont(4) /\ rest(5)
     ELSE FALSE

\* base64.urlDecode: decodes, re-encodes, and answers null when the result
\* differs from the input
urlDecode(cs) ==
  IF \E i \in 1..Len(cs) : cs[i] > 63 THEN NullString
  ELSE LET bs == rawDecode(cs)
       IN IF IsUtf8(bs) /\ urlEncode(bs) = cs THEN bs ELSE NullString

\* position of the first "." of a value, 0 when there is none
firstDot(cs) ==
  IF \E i \in 1..Len(cs) : cs[i] = DOT
  THEN CHOOSE i \in 1..Len(cs) : cs[i] = DOT /\ \A j \in 1..(i - 1) : cs[j] # DOT
  ELSE 0

\* the null results of decode, of a row lookup and of lastCreatedAt
NullDecoded == [identifier |-> << >>, secret |-> << >>]
NullToken == [id |-> 0, tokenable_id |-> 0, email |-> Null, hash |-> 0,
              created_at |-> 0, expires_at |-> 0]
NullDate == 0 - 1
\* an argument that is not passed
Undefined == 0 - 2

\* variant: a value without separator is taken as an identifier alone and an
\* empty part is let through
decodeLenient(value) ==
  IF value = NullString THEN NullDecoded
  ELSE LET d == firstDot(value)
           identifier == IF d = 0 THEN value ELSE SubSeq(value, 1, d - 1)
           decodedIdentifier == urlDecode(identifier)
           decodedSecret == IF d = 0 THEN << >>
                            ELSE urlDecode(SubSeq(value, d + 1, Len(value)))
       IN IF decodedIdentifier = NullString \/ decodedSecret = NullString
          THEN NullDecoded
          ELSE [identifier |-> decodedIdentifier, secret |-> decodedSecret]

\* EmailVerificationToken.decode
decode(value) ==
  IF value = NullString THEN NullDecoded
  ELSE IF Len(value) = 0 THEN NullDecoded
  ELSE LET d == firstDot(value)
           identifier == IF d = 0 THEN value ELSE SubSeq(value, 1, d - 1)
       IN IF Len(identifier) = 0 \/ d = 0 THEN NullDecoded
          ELSE LET decodedIdentifier == urlDecode(identifier)
                   decodedSecret == urlDecode(SubSeq(value, d + 1, Len(value)))
               IN IF decodedIdentifier = NullString \/ decodedIdentifier = << >>
                     \/ decodedSecret = NullString \/ decodedSecret = << >>
                  THEN NullDecoded
                  ELSE [identifier |-> decodedIdentifier, secret |-> decodedSecret]

\* an identifier is a number (or a BigInt) or a string
Number(n) == [number |-> n]
Text(bs) == [string |-> bs]

\* String(identifier): the decimal digits of a number, a string as it is
String(identifier) ==
  IF "string" \in DOMAIN identifier THEN identifier.string
  ELSE StringOf(identifier.number)

\* the value computed by the EmailVerificationToken constructor
computeValue(identifier, secret) ==
  urlEncode(String(identifier)) \o << DOT >> \o urlEncode(secret)

\* createHash('sha256').update(secret).digest('hex'), as a collision-free
\* digest of the bytes
RECURSIVE sha256(_)
sha256(bs) ==
  IF Len(bs) = 0 THEN 0
  ELSE sha256(SubSeq(bs, 1, Len(bs) - 1)) * 257 + bs[Len(bs)] + 1

\* variant: expired from the moment expiresAt is reached
isExpiredFrom(token, t) == token.expires_at <= t

\* EmailVerificationToken.isExpired
isExpired(token, t) == token.expires_at < t

\* EmailVerificationToken.verify
verify(token, secret) == token.hash = sha256(secret)

\* ------------------------------------------------------------------- state
VARIABLES
  users,    \* the users table: id -> row
  tokens,   \* the email_verification_tokens table: a set of rows
  nextId,   \* the next auto-increment id of the tokens table
  now,      \* the clock, in seconds
  ticks,    \* how many times the clock has moved
  stale,    \* ids of the tokens issued before the owner's last change or revert
  last,     \* the call that has just returned
  prev,     \* the call before it, when both are updateUserEmail on one owner
  procs,    \* the concurrent updateUserEmail calls: position and transaction
  lock,     \* the row lock of the contended user: holder and order of grants
  start,    \* the tables before the concurrent calls began
  passwords,    \* the password column of the users table: id -> password
  resetTokens,  \* the password_reset_tokens table: a set of rows
  nextResetId,  \* the next auto-increment id of that table
  returned      \* what the last call of a token provider gave back

vars == << users, tokens, nextId, now, ticks, stale, last, prev, procs, lock, start, passwords, resetTokens, nextResetId, returned >>

NoRow == [exists |-> FALSE, email |-> Null, unverifiedEmail |-> Null]
\* the place of a row that was deleted: increments() does not give its id to
\* another row
Deleted == [exists |-> FALSE, email |-> Null, unverifiedEmail |-> Null,
            deleted |-> TRUE]
\* op, owner, arg, result: the call; token: the id of the token it returned
\* or was presented with; email, unverifiedEmail, had: the owner's row and
\* the number of its tokens when the call was made; pending: the pending
\* email of the instance a method was called on
NoCall == [op |-> "none", owner |-> 0, arg |-> Null, result |-> Null, token |-> 0,
           email |-> Null, unverifiedEmail |-> Null, had |-> 0, pending |-> Null]

Secrets == [1..SecretLen -> SecretChars]

\* what a provider call gives back: token instances (one for create and find,
\* the list for all), a number of deleted rows, a date, or an exception
NoReturn == [rows |-> << >>, count |-> 0, date |-> 0 - 1, error |-> "none"]

\* passwords in use: the one accounts are created with and the new one
InitialPassword == "secret"
NewPassword == "secret@123"
Passwords == {InitialPassword, NewPassword}

\* the two concurrent callers and the user both call updateUserEmail on
Procs == {1, 2}
ConcOwner == 1
\* pc: position in updateUserEmail; owner: the user it is called with; arg:
\* newEmail; freshUser: the row read under the lock; type: the outcome; row,
\* deleted, inserted: the writes of the open transaction
IdleProc == [pc |-> "idle", owner |-> ConcOwner, arg |-> Null, freshUser |-> NoRow,
             type |-> Null, row |-> NoRow, deleted |-> {}, inserted |-> {}]
\* holder: for each row of users the call whose transaction has it locked
\* (0 for none); order: the calls in the order they were given a row
FreeLock == [holder |-> [u \in UserIds |-> 0], order |-> << >>]

\* ----------------------------------------------------------- users (mixin)
\* variant: compares with the confirmed email only
hasEmailChangedPrimaryOnly(user, newEmail) == user.email # newEmail

hasEmailChanged(user, newEmail) ==
  IF user.unverifiedEmail # Null
  THEN user.unverifiedEmail # newEmail
  ELSE user.email # newEmail

\* variant: compares with the pending email instead of the confirmed one
hasEmailRevertedPending(user, newEmail) ==
  user.unverifiedEmail # Null /\ user.unverifiedEmail = newEmail

hasEmailReverted(user, newEmail) ==
  user.unverifiedEmail # Null /\ user.email = newEmail

\* variant: always overwrites both columns
withEmailBoth(user, newEmail) ==
  [user EXCEPT !.email = newEmail, !.unverifiedEmail = newEmail]

\* variant: never touches the confirmed email
withEmailPendingOnly(user, newEmail) ==
  [user EXCEPT !.unverifiedEmail = newEmail]

withEmail(user, newEmail) ==
  IF user.email = user.unverifiedEmail
  THEN [user EXCEPT !.email = newEmail, !.unverifiedEmail = newEmail]
  ELSE [user EXCEPT !.unverifiedEmail = newEmail]

\* variant: keeps the pending email
switchEmailKeepsPending(user, newEmail) == [user EXCEPT !.email = newEmail]

switchEmail(user, newEmail) ==
  [user EXCEPT !.email = newEmail, !.unverifiedEmail = Null]

\* user.save() of an instance that was read as `original`: an UPDATE of the
\* columns whose value differs from the one that was read, on the row as it
\* is stored now; a row that is gone is not written
save(stored, original, user) ==
  IF ~stored.exists THEN stored
  ELSE [stored EXCEPT
          !.email = IF user.email # original.email THEN user.email ELSE @,
          !.unverifiedEmail = IF user.unverifiedEmail # original.unverifiedEmail
                              THEN user.unverifiedEmail ELSE @]

\* variant: a table without the unique index
emailTakenNever(us, u, email) == FALSE

\* the unique index on users.email: another row holds the email
emailTaken(us, u, email) ==
  \E o \in UserIds \ {u} : us[o].exists /\ us[o].email = email

\* -------------------------------------------------------- tokens provider
tokensOf(ts, u) == {t \in ts : t.tokenable_id = u}

\* variant: deletes nothing
deleteAllNone(ts, u) == ts

\* deleteAll: delete ... where tokenable_id = user id
deleteAll(ts, u) == ts \ tokensOf(ts, u)

\* lastCreatedAt: created_at of the newest row of the user, or null
lastCreatedAt(ts, u) ==
  IF tokensOf(ts, u) = {} THEN NullDate
  ELSE CHOOSE c \in {t.created_at : t \in tokensOf(ts, u)} :
         \A t \in tokensOf(ts, u) : t.created_at <= c

\* variant: the row expires the moment it is created
newRowNoTtl(id, u, email, secret, t) ==
  [id |-> id, tokenable_id |-> u, email |-> email, hash |-> sha256(secret),
   created_at |-> t, expires_at |-> t]

\* variant: the identifier is not incremented, every row takes the first one
newRowFirstId(id, u, email, secret, t) ==
  [id |-> 1, tokenable_id |-> u, email |-> email, hash |-> sha256(secret),
   created_at |-> t, expires_at |-> t + ExpiresIn]

\* the row inserted by create
newRow(id, u, email, secret, t) ==
  [id |-> id, tokenable_id |-> u, email |-> email, hash |-> sha256(secret),
   created_at |-> t, expires_at |-> t + ExpiresIn]

\* variant: rejects only a token that is both wrong and expired
providerVerifyBoth(ts, value, t, lax) ==
  LET decodedToken == decode(value)
  IN IF decodedToken = NullDecoded THEN NullToken
     ELSE LET rows == {r \in ts : r.id = integerOf(decodedToken.identifier, lax)}
          IN IF rows = {} THEN NullToken
             ELSE LET token == CHOOSE r \in rows : TRUE
                  IN IF ~verify(token, decodedToken.secret) /\ isExpired(token, t)
                     THEN NullToken
                     ELSE token

\* provider.verify: the stored row the value stands for, or null; lax is the
\* build of the database. The decoded token and the id the query compares
\* with are each worked out once.
providerVerify(ts, value, t, lax) ==
  CHOOSE result \in
    {IF decodedToken = NullDecoded THEN NullToken
     ELSE CHOOSE found \in
       {LET rows == {r \in ts : r.id = id}
        IN IF rows = {} THEN NullToken
           ELSE LET token == CHOOSE r \in rows : TRUE
                IN IF ~verify(token, decodedToken.secret) \/ isExpired(token, t)
                   THEN NullToken
                   ELSE token : id \in {integerOf(decodedToken.identifier, lax)}} : TRUE
     : decodedToken \in {decode(value)}} : TRUE

\* ----------------------------------------------- provider: the other calls
\* the user argument of a provider call: an instance of the provider's model
\* or not, with its primary key value (0: undefined)
Owner(instance, id) == [instance |-> instance, id |-> id]
Persisted(u) == Owner(TRUE, u)

\* variant: only the missing primary key is refused
ensureHasKey(user) ==
  IF user.id = 0 THEN "E_RUNTIME_EXCEPTION: primary key is undefined or null"
  ELSE "ok"

\* #ensureIsPersisted: the exception it throws, or "ok"
ensureIsPersisted(user) ==
  IF ~user.instance THEN "E_RUNTIME_EXCEPTION: Invalid user object"
  ELSE IF user.id = 0 THEN "E_RUNTIME_EXCEPTION: primary key is undefined or null"
  ELSE "ok"

\* options?.expiresIn || this.expiresIn: 0 and undefined give the default
ttlOf(expiresIn) ==
  IF expiresIn = Undefined \/ expiresIn = 0 THEN ExpiresIn ELSE expiresIn

\* the row create inserts: createTransientToken read the clock at t1 for
\* expires_at, created_at is a second reading at t2
insertedRow(id, u, email, secret, expiresIn, t1, t2) ==
  [id |-> id, tokenable_id |-> u, email |-> email, hash |-> sha256(secret),
   created_at |-> t2, expires_at |-> t1 + ttlOf(expiresIn)]

\* variant: the returned instance keeps the value
dbRowToTokenWithValue(dbRow) ==
  [identifier |-> dbRow.id, tokenableId |-> dbRow.tokenable_id,
   email |-> dbRow.email, hash |-> dbRow.hash, createdAt |-> dbRow.created_at,
   expiresAt |-> dbRow.expires_at,
   value |-> computeValue(Number(dbRow.id), << dbRow.hash >>)]

\* dbRowToEmailVerificationToken / dbRowToPasswordResetToken: an instance
\* built without a secret has no value
dbRowToToken(dbRow) ==
  [identifier |-> dbRow.id, tokenableId |-> dbRow.tokenable_id,
   email |-> dbRow.email, hash |-> dbRow.hash, createdAt |-> dbRow.created_at,
   expiresAt |-> dbRow.expires_at, value |-> NullString]

\* the instance create returns: built with the secret, it has the value
createdToken(dbRow, secret) ==
  [dbRowToToken(dbRow) EXCEPT !.value = computeValue(Number(dbRow.id), secret)]

\* variant: looks the identifier up in the whole table
findAny(ts, user, identifier) ==
  {r \in ts : r.id = identifier}

\* the rows find and delete select: where id = identifier and
\* tokenable_id = the user's primary key
find(ts, user, identifier) ==
  {r \in ts : r.id = identifier /\ r.tokenable_id = user.id}

\* variant: any order
allUnordered(ts, user) ==
  {q \in [1..Cardinality(tokensOf(ts, user.id)) -> tokensOf(ts, user.id)] :
     \A i \in DOMAIN q : \A j \in DOMAIN q : i # j => q[i] # q[j]}

\* the lists all may return: the user's rows ordered by created_at desc, rows
\* of one created_at in whichever order the database gives them
all(ts, user) ==
  {q \in [1..Cardinality(tokensOf(ts, user.id)) -> tokensOf(ts, user.id)] :
     /\ \A i \in DOMAIN q : \A j \in DOMAIN q : i # j => q[i] # q[j]
     /\ \A i \in DOMAIN q : \A j \in DOMAIN q :
          i < j => q[i].created_at >= q[j].created_at}

\* ---------------------------------------------------------------- handlers
\* createEmailVerificationToken(shouldThrottle, throttleDuration = 60)
ThrottleDuration == 60

\* the body of updateUserEmail on the locked row: the outcome and the
\* tables it leaves.  A refused save rolls the transaction back.
reconcile(us, ts, u, newEmail, id, secret, t) ==
  LET freshUser == us[u]
  IN IF ~hasEmailChanged(freshUser, newEmail) THEN
       [type |-> "SKIPPED", users |-> us, tokens |-> ts, token |-> 0]
     ELSE IF hasEmailReverted(freshUser, newEmail) THEN
       [type |-> "REVERTED",
        users |-> [us EXCEPT ![u] = [freshUser EXCEPT !.email = newEmail,
                                                      !.unverifiedEmail = Null]],
        tokens |-> deleteAll(ts, u), token |-> 0]
     ELSE LET saved == withEmail(freshUser, newEmail)
          IN IF saved.email # freshUser.email /\ emailTaken(us, u, saved.email)
             THEN [type |-> "E_UNIQUE", users |-> us, tokens |-> ts, token |-> 0]
             ELSE [type |-> "ISSUED_TOKEN",
                   users |-> [us EXCEPT ![u] = saved],
                   tokens |-> deleteAll(ts, u) \cup
                     {newRow(id, u, saved.unverifiedEmail, secret, t)},
                   token |-> id]

\* variant: an email pending on another account blocks the verification too
verifiedPending(us, ts, token) ==
  IF token = NullToken
  THEN [type |-> "E_INVALID_EMAIL_TOKEN", users |-> us, tokens |-> ts, token |-> token]
  ELSE IF \E o \in UserIds :
            /\ us[o].exists /\ o # token.tokenable_id
            /\ token.email \in {us[o].email, us[o].unverifiedEmail}
  THEN [type |-> "E_INVALID_EMAIL_TOKEN", users |-> us, tokens |-> ts, token |-> token]
  ELSE IF ~(token.tokenable_id \in UserIds
            /\ us[token.tokenable_id].exists
            /\ us[token.tokenable_id].unverifiedEmail = token.email)
  THEN [type |-> "E_INVALID_EMAIL_TOKEN", users |-> us, tokens |-> ts, token |-> token]
  ELSE [type |-> "ok",
        users |-> [us EXCEPT ![token.tokenable_id] =
                     switchEmail(us[token.tokenable_id], token.email)],
        tokens |-> deleteAll(ts, token.tokenable_id),
        token |-> token]

\* variant: an owner that is gone or has another pending email is reported
\* as a missing row
verifiedNotFound(us, ts, token) ==
  IF token = NullToken
  THEN [type |-> "E_INVALID_EMAIL_TOKEN", users |-> us, tokens |-> ts, token |-> token]
  ELSE IF \E o \in UserIds :
            us[o].exists /\ us[o].email = token.email /\ o # token.tokenable_id
  THEN [type |-> "E_INVALID_EMAIL_TOKEN", users |-> us, tokens |-> ts, token |-> token]
  ELSE IF ~(token.tokenable_id \in UserIds
            /\ us[token.tokenable_id].exists
            /\ us[token.tokenable_id].unverifiedEmail = token.email)
  THEN [type |-> "E_ROW_NOT_FOUND", users |-> us, tokens |-> ts, token |-> token]
  ELSE [type |-> "ok",
        users |-> [us EXCEPT ![token.tokenable_id] =
                     switchEmail(us[token.tokenable_id], token.email)],
        tokens |-> deleteAll(ts, token.tokenable_id),
        token |-> token]

\* User.verifyEmail once the provider has answered with token (or null),
\* followed by clearEmailVerificationTokens
verified(us, ts, token) ==
  IF token = NullToken
  THEN [type |-> "E_INVALID_EMAIL_TOKEN", users |-> us, tokens |-> ts, token |-> token]
  ELSE IF \E o \in UserIds :
            us[o].exists /\ us[o].email = token.email /\ o # token.tokenable_id
  THEN [type |-> "E_INVALID_EMAIL_TOKEN", users |-> us, tokens |-> ts, token |-> token]
  ELSE IF ~(token.tokenable_id \in UserIds
            /\ us[token.tokenable_id].exists
            /\ us[token.tokenable_id].unverifiedEmail = token.email)
  THEN [type |-> "E_INVALID_EMAIL_TOKEN", users |-> us, tokens |-> ts, token |-> token]
  ELSE [type |-> "ok",
        users |-> [us EXCEPT ![token.tokenable_id] =
                     switchEmail(us[token.tokenable_id], token.email)],
        tokens |-> deleteAll(ts, token.tokenable_id),
        token |-> token]

\* User.verifyEmail(tokenValue) alone: the promotion without the clearing
\* of tokens that the helper does after it
verifyEmailOnly(us, ts, token) == [verified(us, ts, token) EXCEPT !.tokens = ts]

\* the helper verifyEmail(token): it clears the tokens of the user that
\* User.verifyEmail returns. The mixin that locks the row (forUpdate)
\* returns the user; the mixin of with_email_management.ts returns nothing,
\* and there the helper throws a TypeError once the promotion is saved
verifyEmailOutcome(us, ts, value, t, forUpdate, lax) ==
  IF forUpdate THEN verified(us, ts, providerVerify(ts, value, t, lax))
  ELSE LET r == verifyEmailOnly(us, ts, providerVerify(ts, value, t, lax))
       IN IF r.type = "ok" THEN [r EXCEPT !.type = "TypeError"] ELSE r

\* variant: a missing owner is reported as a missing row
resetPasswordNotFound(us, pw, token, newPassword) ==
  IF token = NullToken
  THEN [type |-> "E_INVALID_PASSWORD_TOKEN", passwords |-> pw, token |-> token]
  ELSE IF ~(token.tokenable_id \in UserIds /\ us[token.tokenable_id].exists)
  THEN [type |-> "E_ROW_NOT_FOUND", passwords |-> pw, token |-> token]
  ELSE [type |-> "ok",
        passwords |-> [pw EXCEPT ![token.tokenable_id] = newPassword],
        token |-> token]

\* variant: every account gets the new password
resetPasswordAll(us, pw, token, newPassword) ==
  IF token = NullToken
  THEN [type |-> "E_INVALID_PASSWORD_TOKEN", passwords |-> pw, token |-> token]
  ELSE IF ~(token.tokenable_id \in UserIds /\ us[token.tokenable_id].exists)
  THEN [type |-> "E_INVALID_PASSWORD_TOKEN", passwords |-> pw, token |-> token]
  ELSE [type |-> "ok",
        passwords |-> [u \in UserIds |-> newPassword],
        token |-> token]

\* variant: the password is written before the owner is looked up
resetPasswordUnchecked(us, pw, token, newPassword) ==
  IF token = NullToken
  THEN [type |-> "E_INVALID_PASSWORD_TOKEN", passwords |-> pw, token |-> token]
  ELSE IF ~(token.tokenable_id \in UserIds /\ us[token.tokenable_id].exists)
  THEN [type |-> "E_INVALID_PASSWORD_TOKEN",
        passwords |-> [pw EXCEPT ![token.tokenable_id] = newPassword],
        token |-> token]
  ELSE [type |-> "ok",
        passwords |-> [pw EXCEPT ![token.tokenable_id] = newPassword],
        token |-> token]

\* User.resetPassword(tokenValue, newPassword) on the verified token: the
\* outcome and the passwords it leaves
resetPassword(us, pw, token, newPassword) ==
  IF token = NullToken
  THEN [type |-> "E_INVALID_PASSWORD_TOKEN", passwords |-> pw, token |-> token]
  ELSE IF ~(token.tokenable_id \in UserIds /\ us[token.tokenable_id].exists)
  THEN [type |-> "E_INVALID_PASSWORD_TOKEN", passwords |-> pw, token |-> token]
  ELSE [type |-> "ok",
        passwords |-> [pw EXCEPT ![token.tokenable_id] = newPassword],
        token |-> token]

\* the exceptions of errors.ts as a caller sees them: code, message, status
InvalidEmailToken ==
  [code |-> "E_INVALID_EMAIL_TOKEN",
   message |-> "Invalid or expired email verification token", status |-> 400]
InvalidPasswordToken ==
  [code |-> "E_INVALID_PASSWORD_TOKEN",
   message |-> "Invalid or expired password reset token", status |-> 400]
\* what is thrown for an outcome type; anything else is another exception
raised(type) ==
  IF type = "E_INVALID_EMAIL_TOKEN" THEN InvalidEmailToken
  ELSE IF type = "E_INVALID_PASSWORD_TOKEN" THEN InvalidPasswordToken
  ELSE [code |-> type, message |-> type, status |-> 500]

\* the values a caller may present: the value of any token that was or
\* could be issued, such a value with its last character changed, and
\* malformed values
WellFormed == {computeValue(Number(i), s) : i \in 1..(MaxTokens + 1), s \in Secrets}
Tampered == {[v EXCEPT ![Len(v)] = (v[Len(v)] + 1) % 64] : v \in WellFormed}
Malformed == {NullString, << >>, << 12, 16 >>, << DOT, 24, 16 >>, << 12, 16, DOT >>,
              << 12, 16, DOT, 24, 16, DOT, 24, 16 >>, << 12, 16, DOT, BAD, 16 >>}
\* the values of the issuable tokens with the identifier written with a
\* leading zero
Aliased == {urlEncode(<< 48 >> \o StringOf(i)) \o << DOT >> \o urlEncode(s) :
              i \in 1..(MaxTokens + 1), s \in Secrets}
Values == WellFormed \cup Tampered \cup Malformed \cup Aliased
\* values whose identifier is not an integer as it is written: i and
\* sixteen decimals of which the last is 1 (the double is i), 1 and seventeen
\* decimals that end in 11 (at the halfway point to the next double), and 1
\* followed by a NUL byte
Inexact ==
  {urlEncode(StringOf(i) \o << 46 >> \o [n \in 1..15 |-> 48] \o << 49 >>)
      \o << DOT >> \o urlEncode(<< 97 >>) : i \in 1..MaxTokens}
  \cup {urlEncode(<< 49, 46 >> \o [n \in 1..15 |-> 48] \o << 49, 49 >>)
           \o << DOT >> \o urlEncode(<< 97 >>),
        urlEncode(<< 49, 0 >>) \o << DOT >> \o urlEncode(<< 97 >>)}

\* the id a presented value names, 0 when it names none
presentedId(value, lax) ==
  IF decode(value) = NullDecoded THEN 0
  ELSE IF integerOf(decode(value).identifier, lax) < 1 THEN 0
  ELSE integerOf(decode(value).identifier, lax)

\* the identifier each of these values names on either build, worked out
\* once
NamedOn ==
  [v \in Values \cup Inexact |->
     [exact |-> presentedId(v, FALSE), lax |-> presentedId(v, TRUE)]] @@ << >>
\* the values that both builds read alike
Exact == {v \in Values \cup Inexact : NamedOn[v].exact = NamedOn[v].lax}

\* the builds that a value tells apart: both read an identifier alike unless
\* it lies at a halfway point or holds a NUL byte, and then one stands for
\* both
Builds(v) == IF v \in Exact THEN {FALSE} ELSE BOOLEAN

call(op, u, arg, result, token) ==
  [op |-> op, owner |-> u, arg |-> arg, result |-> result, token |-> token,
   email |-> IF u \in UserIds THEN users[u].email ELSE Null,
   unverifiedEmail |-> IF u \in UserIds THEN users[u].unverifiedEmail ELSE Null,
   had |-> Cardinality(tokensOf(tokens, u)),
   pending |-> IF u \in UserIds THEN users[u].unverifiedEmail ELSE Null]

\* ----------------------------------------------------------------- actions
Init ==
  /\ users = [u \in UserIds |-> NoRow]
  /\ tokens = {}
  /\ nextId = 1
  /\ now = 0
  /\ ticks = 0
  /\ stale = {}
  /\ last = NoCall
  /\ prev = NoCall
  /\ procs = [p \in Procs |-> IdleProc]
  /\ lock = FreeLock
  /\ start = [users |-> users, tokens |-> tokens, nextId |-> nextId]
  /\ passwords = [u \in UserIds |-> InitialPassword]
  /\ resetTokens = {}
  /\ nextResetId = 1
  /\ returned = NoReturn

\* User.create({ email, unverifiedEmail }) on the users table
CreateUser(email, unverifiedEmail) ==
  /\ \E u \in UserIds : users[u] = NoRow
  /\ LET u == CHOOSE i \in UserIds :
                users[i] = NoRow /\ \A j \in 1..(i - 1) : users[j] # NoRow
     IN /\ ~emailTaken(users, u, email)
        /\ users' = [users EXCEPT ![u] = [exists |-> TRUE, email |-> email,
                                          unverifiedEmail |-> unverifiedEmail]]
  /\ last' = NoCall
  /\ prev' = NoCall
  /\ UNCHANGED << tokens, nextId, now, ticks, stale, procs, lock, start, passwords, resetTokens, nextResetId, returned >>

\* updateUserEmail(user, newEmail) with no other call under way: the
\* transaction from its begin to its commit
UpdateUserEmail(u, newEmail, secret) ==
  /\ users[u].exists
  /\ \E r \in {reconcile(users, tokens, u, newEmail, nextId, secret, now)} :
        /\ r.type = "ISSUED_TOKEN" => nextId <= MaxTokens
        /\ users' = r.users
        /\ tokens' = r.tokens
        /\ nextId' = IF r.type = "ISSUED_TOKEN" THEN nextId + 1 ELSE nextId
        /\ stale' = IF r.type \in {"ISSUED_TOKEN", "REVERTED"}
                    THEN stale \cup {t.id : t \in tokensOf(tokens, u)}
                    ELSE stale
        /\ last' = call("updateUserEmail", u, newEmail, r.type, r.token)
  /\ prev' = IF last.op = "updateUserEmail" /\ last.owner = u THEN last ELSE NoCall
  /\ UNCHANGED << now, ticks, procs, lock, start, passwords, resetTokens, nextResetId, returned >>

\* a model instance in the caller's hands: its key and the pending email it
\* carries; what happens to the row afterwards does not reach it
Instance(id, unverifiedEmail) == [id |-> id, unverifiedEmail |-> unverifiedEmail]
\* the instance as User.find(u) or user.refresh() gives it now
Found(u) == Instance(u, users[u].unverifiedEmail)
\* the instances of user u a caller can hold: one found now, one found or
\* created any number of calls ago and kept since, one whose pending email
\* was assigned in memory (withEmail) and not saved
Held(u) == {Instance(u, e) : e \in Emails \cup {Null}}
\* those of them that were found while the account waited for one of the
\* emails es or for none
HeldWith(u, es) == {user \in Held(u) : user.unverifiedEmail \in es \cup {Null}}

\* variant: the window still counts at the second it ends
throttledInclusive(ts, u, shouldThrottle, seconds, t) ==
  /\ shouldThrottle
  /\ lastCreatedAt(ts, u) # NullDate
  /\ lastCreatedAt(ts, u) + seconds >= t

\* variant: the window applies to every issuance
throttledAlways(ts, u, shouldThrottle, seconds, t) ==
  /\ lastCreatedAt(ts, u) # NullDate
  /\ lastCreatedAt(ts, u) + seconds > t

\* the throttle check of createEmailVerificationToken and
\* createPasswordResetToken: a token of the user newer than the window
throttled(ts, u, shouldThrottle, seconds, t) ==
  /\ shouldThrottle
  /\ lastCreatedAt(ts, u) # NullDate
  /\ lastCreatedAt(ts, u) + seconds > t

\* throttleDuration = 60: the default of an argument that is not passed
Windows == {ThrottleDuration \div 2, ThrottleDuration, 2 * ThrottleDuration}
windowOf(throttleDuration) ==
  IF throttleDuration = Undefined THEN ThrottleDuration ELSE throttleDuration

\* a call of createEmailVerificationToken on an instance
callOn(user, arg, result, token) ==
  [call("createEmailVerificationToken", user.id, arg, result, token)
     EXCEPT !.pending = user.unverifiedEmail]

\* variant: the throttle is consulted before the pending email is looked at
issueEmailTokenThrottleFirst(user, shouldThrottle, seconds, secret) ==
  /\ \E u \in {user.id} :
       IF throttled(tokens, u, shouldThrottle, seconds, now) THEN
         /\ last' = callOn(user, "throttled", "null", 0)
         /\ UNCHANGED << tokens, nextId >>
       ELSE IF user.unverifiedEmail = Null THEN
         /\ last' = callOn(user, IF shouldThrottle THEN "throttled" ELSE Null,
                         "RuntimeException", 0)
         /\ UNCHANGED << tokens, nextId >>
       ELSE
         /\ nextId <= MaxTokens
         /\ tokens' = tokens \cup
              {newRow(nextId, u, user.unverifiedEmail, secret, now)}
         /\ nextId' = nextId + 1
         /\ last' = callOn(user, IF shouldThrottle THEN "throttled" ELSE Null,
                         "token", nextId)
  /\ prev' = NoCall
  /\ UNCHANGED << users, now, ticks, stale, procs, lock, start, passwords, resetTokens, nextResetId, returned >>

\* the body of createEmailVerificationToken with a window of that many
\* seconds: the pending email is read from the instance the method is called
\* on, and the row of the user is not looked at
issueEmailToken(user, shouldThrottle, seconds, secret) ==
  /\ \E u \in {user.id} :
       IF user.unverifiedEmail = Null THEN
         /\ last' = callOn(user, IF shouldThrottle THEN "throttled" ELSE Null,
                         "RuntimeException", 0)
         /\ UNCHANGED << tokens, nextId >>
       ELSE IF throttled(tokens, u, shouldThrottle, seconds, now) THEN
         /\ last' = callOn(user, "throttled", "null", 0)
         /\ UNCHANGED << tokens, nextId >>
       ELSE
         /\ nextId <= MaxTokens
         /\ tokens' = tokens \cup
              {newRow(nextId, u, user.unverifiedEmail, secret, now)}
         /\ nextId' = nextId + 1
         /\ last' = callOn(user, IF shouldThrottle THEN "throttled" ELSE Null,
                         "token", nextId)
  /\ prev' = NoCall
  /\ UNCHANGED << users, now, ticks, stale, procs, lock, start, passwords, resetTokens, nextResetId, returned >>

\* user.createEmailVerificationToken(shouldThrottle, throttleDuration)
CreateEmailVerificationToken(user, shouldThrottle, throttleDuration, secret) ==
  issueEmailToken(user, shouldThrottle, windowOf(throttleDuration), secret)

\* the same call on the mixin of with_email_management.ts, whose window is
\* fixed: a second argument is not read
FixedThrottle == 60
CreateEmailVerificationTokenFixed(user, shouldThrottle, throttleDuration, secret) ==
  issueEmailToken(user, shouldThrottle, FixedThrottle, secret)

\* a call of the password flow: had counts the owner's password tokens
callReset(op, u, arg, result, token) ==
  [op |-> op, owner |-> u, arg |-> arg, result |-> result, token |-> token,
   email |-> IF u \in UserIds THEN users[u].email ELSE Null,
   unverifiedEmail |-> IF u \in UserIds THEN users[u].unverifiedEmail ELSE Null,
   had |-> Cardinality(tokensOf(resetTokens, u)),
   pending |-> IF u \in UserIds THEN users[u].unverifiedEmail ELSE Null]

\* user.createPasswordResetToken(shouldThrottle, throttleDuration)
CreatePasswordResetToken(u, shouldThrottle, throttleDuration, secret) ==
  /\ IF throttled(resetTokens, u, shouldThrottle, windowOf(throttleDuration), now) THEN
       /\ last' = callReset("createPasswordResetToken", u, "throttled", "null", 0)
       /\ UNCHANGED << resetTokens, nextResetId >>
     ELSE
       /\ nextResetId <= MaxTokens
       /\ resetTokens' = resetTokens \cup {newRow(nextResetId, u, Null, secret, now)}
       /\ nextResetId' = nextResetId + 1
       /\ last' = callReset("createPasswordResetToken", u,
                            IF shouldThrottle THEN "throttled" ELSE Null,
                            "token", nextResetId)
  /\ prev' = NoCall
  /\ UNCHANGED << users, tokens, nextId, now, ticks, stale, procs, lock, start, passwords, returned >>

\* user.clearPasswordResetTokens()
ClearPasswordResetTokens(u) ==
  /\ resetTokens' = deleteAll(resetTokens, u)
  /\ last' = callReset("clearPasswordResetTokens", u, Null, "ok", 0)
  /\ prev' = NoCall
  /\ UNCHANGED << users, tokens, nextId, now, ticks, stale, procs, lock, start, passwords, nextResetId, returned >>

\* user.clearEmailVerificationTokens()
ClearEmailVerificationTokens(u) ==
  /\ tokens' = deleteAll(tokens, u)
  /\ last' = call("clearEmailVerificationTokens", u, Null, "ok", 0)
  /\ prev' = NoCall
  /\ UNCHANGED << users, nextId, now, ticks, stale, procs, lock, start, passwords, resetTokens, nextResetId, returned >>

\* verifyEmail(token): User.verifyEmail, then clear the tokens of the user
\* it returns
VerifyEmail(value, forUpdate, lax) ==
  /\ \E r \in {verifyEmailOutcome(users, tokens, value, now, forUpdate, lax)} :
        /\ users' = r.users
        /\ tokens' = r.tokens
        /\ last' = call("verifyEmail", r.token.tokenable_id, Null, r.type,
                        presentedId(value, lax))
  /\ prev' = NoCall
  /\ UNCHANGED << nextId, now, ticks, stale, procs, lock, start, passwords, resetTokens, nextResetId, returned >>

\* User.emailVerificationTokens.verify(new Secret(value))
ProviderVerify(value, lax) ==
  /\ \E token \in {providerVerify(tokens, value, now, lax)} :
        /\ last' = call("verify", token.tokenable_id, Null,
                        IF token = NullToken THEN "null" ELSE "token",
                        presentedId(value, lax))
        /\ returned' = [NoReturn EXCEPT !.rows =
              IF token = NullToken THEN << >> ELSE << dbRowToToken(token) >>]
  /\ prev' = NoCall
  /\ UNCHANGED << users, tokens, nextId, now, ticks, stale, procs, lock, start, passwords, resetTokens, nextResetId >>

\* User.verifyEmail(value), without the helper's clearing
UserVerifyEmail(value, lax) ==
  /\ \E r \in {verifyEmailOnly(users, tokens, providerVerify(tokens, value, now, lax))} :
        /\ users' = r.users
        /\ last' = call("User.verifyEmail", r.token.tokenable_id, Null, r.type,
                        presentedId(value, lax))
  /\ prev' = NoCall
  /\ UNCHANGED << tokens, nextId, now, ticks, stale, procs, lock, start, passwords, resetTokens, nextResetId, returned >>

\* User.resetPassword(value, newPassword), without any clearing
UserResetPassword(value, newPassword, lax) ==
  /\ \E r \in {resetPassword(users, passwords,
                             providerVerify(resetTokens, value, now, lax), newPassword)} :
        /\ passwords' = r.passwords
        /\ last' = callReset("User.resetPassword", r.token.tokenable_id, newPassword,
                             r.type, presentedId(value, lax))
  /\ prev' = NoCall
  /\ UNCHANGED << users, tokens, nextId, now, ticks, stale, procs, lock, start, resetTokens, nextResetId, returned >>

\* resetPassword(value, newPassword): User.resetPassword, then
\* clearPasswordResetTokens on the user it returns
ResetPassword(value, newPassword, lax) ==
  /\ \E r \in {resetPassword(users, passwords,
                             providerVerify(resetTokens, value, now, lax), newPassword)} :
        /\ passwords' = r.passwords
        /\ resetTokens' = IF r.type = "ok"
                          THEN deleteAll(resetTokens, r.token.tokenable_id)
                          ELSE resetTokens
        /\ last' = callReset("resetPassword", r.token.tokenable_id, newPassword,
                             r.type, presentedId(value, lax))
  /\ prev' = NoCall
  /\ UNCHANGED << users, tokens, nextId, now, ticks, stale, procs, lock, start, nextResetId, returned >>

\* user.delete(): the row goes, the tokens of both tables stay
DeleteUser(u) ==
  /\ users[u].exists
  /\ users' = [users EXCEPT ![u] = Deleted]
  /\ last' = NoCall
  /\ prev' = NoCall
  /\ UNCHANGED << tokens, nextId, now, ticks, stale, procs, lock, start, passwords, resetTokens, nextResetId, returned >>

\* ------------------------------------------------ provider calls as steps
EmailTable == "email_verification_tokens"
PasswordTable == "password_reset_tokens"
Tables == {EmailTable, PasswordTable}
rowsIn(tb) == IF tb = EmailTable THEN tokens ELSE resetTokens
nextIdIn(tb) == IF tb = EmailTable THEN nextId ELSE nextResetId

\* no row was ever stored in tb
Unused(tb) == rowsIn(tb) = {} /\ nextIdIn(tb) = 1
Others(tb) == Tables \ {tb}

\* the table tb holds ts and will number its next row id
Stored(tb, ts, id) ==
  IF tb = EmailTable
  THEN tokens' = ts /\ nextId' = id /\ UNCHANGED << resetTokens, nextResetId >>
  ELSE resetTokens' = ts /\ nextResetId' = id /\ UNCHANGED << tokens, nextId >>

\* a provider call that threw from #ensureIsPersisted: nothing was queried
Thrown(op, tb, user) ==
  /\ ensureIsPersisted(user) # "ok"
  /\ last' = call(op, user.id, tb, "error", 0)
  /\ returned' = [NoReturn EXCEPT !.error = ensureIsPersisted(user)]
  /\ UNCHANGED << tokens, nextId, resetTokens, nextResetId >>

\* how long create may take between its two readings of the clock
Drift == {0, 1}

\* provider.create(user, email, { expiresIn }); the password provider takes
\* no email. The clock moves by d between createTransientToken and the
\* building of the row.
ProviderCreate(tb, user, email, secret, expiresIn, d) ==
  /\ d = 0 \/ ticks < MaxTicks
  /\ \/ Thrown("create", tb, user) /\ UNCHANGED << now, ticks >>
     \/ /\ ensureIsPersisted(user) = "ok"
        /\ nextIdIn(tb) <= MaxTokens
        /\ \E dbRow \in {insertedRow(nextIdIn(tb), user.id,
                                     IF tb = EmailTable THEN email ELSE Null,
                                     secret, expiresIn, now, now + d)} :
             /\ Stored(tb, rowsIn(tb) \cup {dbRow}, nextIdIn(tb) + 1)
             /\ returned' = [NoReturn EXCEPT !.rows = << createdToken(dbRow, secret) >>]
             /\ last' = call("create", user.id, tb, "token", dbRow.id)
        /\ now' = now + d
        /\ ticks' = IF d = 0 THEN ticks ELSE ticks + 1
  /\ prev' = NoCall
  /\ UNCHANGED << users, stale, procs, lock, start, passwords >>

\* provider.find(user, identifier)
ProviderFind(tb, user, identifier) ==
  /\ \/ Thrown("find", tb, user)
     \/ /\ ensureIsPersisted(user) = "ok"
        /\ \E found \in {find(rowsIn(tb), user, identifier)} :
             /\ returned' = [NoReturn EXCEPT !.rows =
                   IF found = {} THEN << >>
                   ELSE << dbRowToToken(CHOOSE r \in found : TRUE) >>]
             /\ last' = call("find", user.id, tb,
                             IF found = {} THEN "null" ELSE "token", identifier)
        /\ UNCHANGED << tokens, nextId, resetTokens, nextResetId >>
  /\ prev' = NoCall
  /\ UNCHANGED << users, now, ticks, stale, procs, lock, start, passwords >>

\* provider.delete(user, identifier): the number of rows it deleted
ProviderDelete(tb, user, identifier) ==
  /\ \/ Thrown("delete", tb, user)
     \/ /\ ensureIsPersisted(user) = "ok"
        /\ \E found \in {find(rowsIn(tb), user, identifier)} :
             /\ Stored(tb, rowsIn(tb) \ found, nextIdIn(tb))
             /\ returned' = [NoReturn EXCEPT !.count = Cardinality(found)]
             /\ last' = call("delete", user.id, tb, "count", identifier)
  /\ prev' = NoCall
  /\ UNCHANGED << users, now, ticks, stale, procs, lock, start, passwords >>

\* provider.deleteAll(user): the number of rows it deleted
ProviderDeleteAll(tb, user) ==
  /\ \/ Thrown("deleteAll", tb, user)
     \/ /\ ensureIsPersisted(user) = "ok"
        /\ Stored(tb, deleteAll(rowsIn(tb), user.id), nextIdIn(tb))
        /\ returned' = [NoReturn EXCEPT
                          !.count = Cardinality(tokensOf(rowsIn(tb), user.id))]
        /\ last' = call("deleteAll", user.id, tb, "count", 0)
  /\ prev' = NoCall
  /\ UNCHANGED << users, now, ticks, stale, procs, lock, start, passwords >>

\* provider.all(user)
ProviderAll(tb, user) ==
  /\ \/ Thrown("all", tb, user)
     \/ /\ ensureIsPersisted(user) = "ok"
        /\ \E dbRows \in all(rowsIn(tb), user) :
             returned' = [NoReturn EXCEPT
                            !.rows = [i \in DOMAIN dbRows |-> dbRowToToken(dbRows[i])]]
        /\ last' = call("all", user.id, tb, "list", 0)
        /\ UNCHANGED << tokens, nextId, resetTokens, nextResetId >>
  /\ prev' = NoCall
  /\ UNCHANGED << users, now, ticks, stale, procs, lock, start, passwords >>

\* provider.lastCreatedAt(user)
ProviderLastCreatedAt(tb, user) ==
  /\ \/ Thrown("lastCreatedAt", tb, user)
     \/ /\ ensureIsPersisted(user) = "ok"
        /\ returned' = [NoReturn EXCEPT !.date = lastCreatedAt(rowsIn(tb), user.id)]
        /\ last' = call("lastCreatedAt", user.id, tb,
                        IF lastCreatedAt(rowsIn(tb), user.id) = NullDate
                        THEN "null" ELSE "date", 0)
        /\ UNCHANGED << tokens, nextId, resetTokens, nextResetId >>
  /\ prev' = NoCall
  /\ UNCHANGED << users, now, ticks, stale, procs, lock, start, passwords >>

\* ------------------------------------------- provider calls in a transaction
\* the one caller that may hold a transaction: pc "open" while it does,
\* deleted and inserted are the rows its transaction has removed and added
TrxOwner == 1
TrxOpen == procs[TrxOwner].pc = "open"
\* the rows a query on the transaction's client sees
seenIn(tb) == (rowsIn(tb) \ procs[TrxOwner].deleted) \cup procs[TrxOwner].inserted

\* variant: the provider ignores user.$trx and writes through the model's
\* own client
bufferedNever(deleted, inserted, gone, added) ==
  [deleted |-> deleted, inserted |-> inserted, gone |-> gone, added |-> added]

\* user.$trx || getDb(): with a transaction on the user, rows go to and from
\* the transaction and nothing is written outside of it
buffered(deleted, inserted, gone, added) ==
  [deleted |-> deleted \cup gone, inserted |-> (inserted \ gone) \cup added,
   gone |-> {}, added |-> {}]

\* db.transaction(); start keeps the rows of the token tables as they are now
Transaction ==
  /\ ~TrxOpen
  /\ procs' = [procs EXCEPT ![TrxOwner] = [IdleProc EXCEPT !.pc = "open"]]
  /\ start' = [users |-> users, tokens |-> tokens \cup resetTokens, nextId |-> nextId,
               nextResetId |-> nextResetId]
  /\ last' = NoCall
  /\ prev' = NoCall
  /\ UNCHANGED << users, tokens, nextId, now, ticks, stale, lock, passwords, resetTokens, nextResetId, returned >>

\* the rows gone and added by a call on a user bound to the transaction
TrxWrite(tb, gone, added) ==
  \E b \in {buffered(procs[TrxOwner].deleted, procs[TrxOwner].inserted, gone, added)} :
    /\ procs' = [procs EXCEPT ![TrxOwner].deleted = b.deleted,
                              ![TrxOwner].inserted = b.inserted]
    /\ Stored(tb, (rowsIn(tb) \ b.gone) \cup b.added,
              nextIdIn(tb) + Cardinality(added))

\* provider.create(user, email) with user.$trx set
TrxCreate(tb, user, email, secret) ==
  /\ TrxOpen
  /\ ensureIsPersisted(user) = "ok"
  /\ nextIdIn(tb) <= MaxTokens
  /\ \E dbRow \in {insertedRow(nextIdIn(tb), user.id,
                               IF tb = EmailTable THEN email ELSE Null,
                               secret, Undefined, now, now)} :
       /\ TrxWrite(tb, {}, {dbRow})
       /\ returned' = [NoReturn EXCEPT !.rows = << createdToken(dbRow, secret) >>]
       /\ last' = call("trx.create", user.id, tb, "token", dbRow.id)
  /\ prev' = NoCall
  /\ UNCHANGED << users, now, ticks, stale, lock, start, passwords >>

\* provider.delete(user, identifier) with user.$trx set
TrxDelete(tb, user, identifier) ==
  /\ TrxOpen
  /\ ensureIsPersisted(user) = "ok"
  /\ \E found \in {find(seenIn(tb), user, identifier)} :
       /\ TrxWrite(tb, found, {})
       /\ returned' = [NoReturn EXCEPT !.count = Cardinality(found)]
       /\ last' = call("trx.delete", user.id, tb, "count", identifier)
  /\ prev' = NoCall
  /\ UNCHANGED << users, now, ticks, stale, lock, start, passwords >>

\* provider.deleteAll(user) with user.$trx set
TrxDeleteAll(tb, user) ==
  /\ TrxOpen
  /\ ensureIsPersisted(user) = "ok"
  /\ \E found \in {tokensOf(seenIn(tb), user.id)} :
       /\ TrxWrite(tb, found, {})
       /\ returned' = [NoReturn EXCEPT !.count = Cardinality(found)]
       /\ last' = call("trx.deleteAll", user.id, tb, "count", 0)
  /\ prev' = NoCall
  /\ UNCHANGED << users, now, ticks, stale, lock, start, passwords >>

\* the rows lastCreatedAt reads for a user bound to the transaction: the
\* email provider asks the model's own client, which sees committed rows; the
\* password provider asks user.$trx
readBy(tb) == IF tb = EmailTable THEN rowsIn(tb) ELSE seenIn(tb)

\* user.createEmailVerificationToken(true) or user.createPasswordResetToken(true)
\* with user.$trx set and the default window
TrxIssue(tb, user, secret) ==
  /\ TrxOpen
  /\ ensureIsPersisted(user) = "ok"
  /\ users[user.id].exists /\ users[user.id].unverifiedEmail # Null
  /\ \/ \* the email provider's lastCreatedAt asks the model's own client for
        \* a connection: where the pool has one connection and the
        \* transaction holds it, the query times out
        /\ tb = EmailTable
        /\ last' = call("trx.issue", user.id, tb, "KnexTimeoutError", 0)
        /\ returned' = NoReturn
        /\ UNCHANGED << tokens, nextId, resetTokens, nextResetId, procs >>
     \/ IF throttled(readBy(tb), user.id, TRUE, ThrottleDuration, now) THEN
          /\ last' = call("trx.issue", user.id, tb, "null", 0)
          /\ returned' = NoReturn
          /\ UNCHANGED << tokens, nextId, resetTokens, nextResetId, procs >>
        ELSE
          /\ nextIdIn(tb) <= MaxTokens
          /\ \E dbRow \in {insertedRow(nextIdIn(tb), user.id,
                                       IF tb = EmailTable
                                       THEN users[user.id].unverifiedEmail ELSE Null,
                                       secret, Undefined, now, now)} :
               /\ TrxWrite(tb, {}, {dbRow})
               /\ returned' = [NoReturn EXCEPT !.rows = << createdToken(dbRow, secret) >>]
               /\ last' = call("trx.issue", user.id, tb, "token", dbRow.id)
  /\ prev' = NoCall
  /\ UNCHANGED << users, now, ticks, stale, lock, start, passwords >>

\* how a transaction ended: token counts the rows it had added, had the rows
\* it had removed
ended(op, tb) ==
  [call(op, 0, tb, "ok", Cardinality(procs[TrxOwner].inserted))
     EXCEPT !.had = Cardinality(procs[TrxOwner].deleted)]

\* trx.commit(): the transaction's rows become the table's
Commit(tb) ==
  /\ TrxOpen
  /\ Stored(tb, seenIn(tb), nextIdIn(tb))
  /\ procs' = [procs EXCEPT ![TrxOwner] = IdleProc]
  /\ last' = ended("commit", tb)
  /\ prev' = NoCall
  /\ UNCHANGED << users, now, ticks, stale, lock, start, passwords, returned >>

\* trx.rollback(): the transaction's rows are dropped. The identifiers it
\* handed out are lost where the database keeps its sequence outside of
\* transactions, and handed out again where the rollback takes the counter
\* back (sqlite_sequence)
Rollback(tb) ==
  /\ TrxOpen
  /\ \E id \in {nextIdIn(tb),
                 IF tb = EmailTable THEN start.nextId ELSE start.nextResetId} :
       Stored(tb, rowsIn(tb), id)
  /\ procs' = [procs EXCEPT ![TrxOwner] = IdleProc]
  /\ last' = ended("rollback", tb)
  /\ prev' = NoCall
  /\ UNCHANGED << users, now, ticks, stale, lock, start, passwords, returned >>

\* the clock advances
Tick(d) ==
  /\ ticks < MaxTicks
  /\ now' = now + d
  /\ ticks' = ticks + 1
  /\ last' = NoCall
  /\ prev' = NoCall
  /\ UNCHANGED << users, tokens, nextId, stale, procs, lock, start, passwords, resetTokens, nextResetId, returned >>

\* ------------------------------------------- concurrent updateUserEmail
\* variant: the row is handed out without waiting for its holder
lockFreeAlways(l, u) == TRUE

\* select ... for update waits until no transaction holds the row
lockFree(l, u) == l.holder[u] = 0

\* the row is given to the call
granted(l, u, p) ==
  [holder |-> [l.holder EXCEPT ![u] = p], order |-> Append(l.order, p)]

\* the transaction of the call has ended: the row it held is free
released(l, p) ==
  [l EXCEPT !.holder = [u \in UserIds |-> IF l.holder[u] = p THEN 0 ELSE l.holder[u]]]

\* the call holds a row
held(l, p) == \E u \in UserIds : l.holder[u] = p

\* the call is updateUserEmail and its transaction, which has not ended, has
\* given its owner another confirmed email
movedEmail(q) ==
  /\ "freshUser" \in DOMAIN procs[q]
  /\ procs[q].pc \in {"saved", "cleared", "returning"}
  /\ procs[q].row.exists
  /\ procs[q].row.email # procs[q].freshUser.email

\* the unique index makes a statement that writes an email wait while a
\* transaction that has not ended has given that email to a row or has taken
\* it from a row: whether the email is free is known when that one ends
indexFree(p, email) ==
  \A q \in DOMAIN procs \ {p} :
    movedEmail(q) => email \notin {procs[q].row.email, procs[q].freshUser.email}

secretOf(p) == [i \in 1..SecretLen |-> IF p = 1 THEN 97 ELSE 98]

\* user.lockForUpdate: open a transaction, lock the row and read it
Lock(p) ==
  /\ procs[p].pc = "start"
  /\ lockFree(lock, procs[p].owner)
  /\ lock' = granted(lock, procs[p].owner, p)
  /\ procs' = [procs EXCEPT ![p].pc = "locked", ![p].freshUser = users[procs[p].owner]]
  /\ UNCHANGED << users, tokens, nextId, now, ticks, stale, last, prev, start, passwords, resetTokens, nextResetId, returned >>

\* the decision and freshUser.save() inside the transaction
Save(p) ==
  /\ procs[p].pc = "locked"
  /\ LET freshUser == procs[p].freshUser
         newEmail == procs[p].arg
     IN (/\ hasEmailChanged(freshUser, newEmail)
         /\ ~hasEmailReverted(freshUser, newEmail)
         /\ withEmail(freshUser, newEmail).email # freshUser.email)
          => indexFree(p, withEmail(freshUser, newEmail).email)
  /\ LET freshUser == procs[p].freshUser
         newEmail == procs[p].arg
     IN IF ~hasEmailChanged(freshUser, newEmail) THEN
          procs' = [procs EXCEPT ![p].pc = "returning", ![p].type = "SKIPPED",
                                 ![p].row = freshUser]
        ELSE IF hasEmailReverted(freshUser, newEmail) THEN
          procs' = [procs EXCEPT ![p].pc = "saved", ![p].type = "REVERTED",
                                 ![p].row = [freshUser EXCEPT !.email = newEmail,
                                                              !.unverifiedEmail = Null]]
        ELSE LET saved == withEmail(freshUser, newEmail)
             IN IF saved.email # freshUser.email
                   /\ emailTaken(users, procs[p].owner, saved.email)
                THEN procs' = [procs EXCEPT ![p].pc = "returning",
                                            ![p].type = "E_UNIQUE"]
                ELSE procs' = [procs EXCEPT ![p].pc = "saved",
                                            ![p].type = "ISSUED_TOKEN",
                                            ![p].row = saved]
  /\ UNCHANGED << users, tokens, nextId, now, ticks, stale, last, prev, lock, start, passwords, resetTokens, nextResetId, returned >>

\* freshUser.clearEmailVerificationTokens() inside the transaction
Clear(p) ==
  /\ procs[p].pc = "saved"
  /\ procs' = [procs EXCEPT
       ![p].pc = IF procs[p].type = "REVERTED" THEN "returning" ELSE "cleared",
       ![p].deleted = {t.id : t \in tokensOf(tokens, procs[p].owner)}]
  /\ UNCHANGED << users, tokens, nextId, now, ticks, stale, last, prev, lock, start, passwords, resetTokens, nextResetId, returned >>

\* freshUser.createEmailVerificationToken(false) inside the transaction
Create(p) ==
  /\ procs[p].pc = "cleared"
  /\ procs' = [procs EXCEPT
       ![p].pc = "returning",
       ![p].inserted = {newRow(nextId, procs[p].owner, procs[p].row.unverifiedEmail,
                               secretOf(p), now)}]
  /\ nextId' = nextId + 1
  /\ UNCHANGED << users, tokens, now, ticks, stale, last, prev, lock, start, passwords, resetTokens, nextResetId, returned >>

\* variant: what the callback wrote before a statement failed is kept
EndTransactionCommit(p) ==
  /\ procs[p].pc = "returning"
  /\ IF procs[p].type = "E_UNIQUE"
     THEN UNCHANGED << users, tokens >>
     ELSE /\ users' = [users EXCEPT ![procs[p].owner] =
                         IF procs[p].row = NoRow THEN users[procs[p].owner]
                         ELSE procs[p].row]
          /\ tokens' = {t \in tokens : t.id \notin procs[p].deleted}
                         \cup procs[p].inserted
  /\ procs' = [procs EXCEPT ![p].pc = "done"]
  /\ lock' = released(lock, p)
  /\ UNCHANGED << nextId, now, ticks, stale, last, prev, start, passwords, resetTokens, nextResetId, returned >>

\* variant: a callback that threw leaves its transaction open and the row
\* with it
EndTransactionOnReturn(p) ==
  /\ procs[p].pc = "returning"
  /\ IF procs[p].type \in {"E_UNIQUE", "E_STORAGE"}
     THEN UNCHANGED << users, tokens, lock >>
     ELSE /\ users' = [users EXCEPT ![procs[p].owner] = procs[p].row]
          /\ tokens' = {t \in tokens : t.id \notin procs[p].deleted}
                         \cup procs[p].inserted
          /\ lock' = released(lock, p)
  /\ procs' = [procs EXCEPT ![p].pc = "done"]
  /\ UNCHANGED << nextId, now, ticks, stale, last, prev, start, passwords, resetTokens, nextResetId, returned >>

\* the callback returned or threw: commit or roll back, release the row
EndTransaction(p) ==
  /\ procs[p].pc = "returning"
  /\ IF procs[p].type \in {"E_UNIQUE", "E_STORAGE"}
     THEN UNCHANGED << users, tokens >>
     ELSE /\ users' = [users EXCEPT ![procs[p].owner] = procs[p].row]
          /\ tokens' = {t \in tokens : t.id \notin procs[p].deleted}
                         \cup procs[p].inserted
  /\ procs' = [procs EXCEPT ![p].pc = "done"]
  /\ lock' = released(lock, p)
  /\ UNCHANGED << nextId, now, ticks, stale, last, prev, start, passwords, resetTokens, nextResetId, returned >>

\* The tables two concurrent calls can find: the contended user with any
\* confirmed and pending email, that many tokens for the pending email, and
\* other users with confirmed emails of their own.
ConcUsers ==
  {us \in [UserIds -> {NoRow} \cup
                      {[exists |-> TRUE, email |-> e, unverifiedEmail |-> q] :
                         e \in Emails, q \in Emails \cup {Null}}] :
     /\ us[ConcOwner].exists
     /\ \A o \in UserIds \ {ConcOwner} : us[o].unverifiedEmail = Null
     /\ \A o \in UserIds : \A q \in UserIds :
          (o # q /\ us[o].exists /\ us[q].exists) => us[o].email # us[q].email
     /\ \A o \in UserIds : \A q \in 1..(o - 1) : us[o].exists => us[q].exists}

InitConc ==
  /\ users \in ConcUsers
  /\ \E k \in 0..MaxTokens :
       /\ users[ConcOwner].unverifiedEmail = Null => k = 0
       /\ tokens = {newRow(i, ConcOwner, users[ConcOwner].unverifiedEmail,
                           secretOf(1), 0) : i \in 1..k}
       /\ nextId = k + 1
  /\ now = 0
  /\ ticks = 0
  /\ stale = {}
  /\ last = NoCall
  /\ prev = NoCall
  /\ procs \in [Procs -> {[IdleProc EXCEPT !.pc = "start", !.arg = e] : e \in Emails}]
  /\ lock = FreeLock
  /\ start = [users |-> users, tokens |-> tokens, nextId |-> nextId]
  /\ passwords = [u \in UserIds |-> InitialPassword]
  /\ resetTokens = {}
  /\ nextResetId = 1
  /\ returned = NoReturn

NextConc ==
  \E p \in Procs : Lock(p) \/ Save(p) \/ Clear(p) \/ Create(p) \/ EndTransaction(p)

SpecConc == InitConc /\ [][NextConc]_vars

\* freshUser.save(), provider.deleteAll or provider.create rejects with an
\* error of the database: the callback of lockForUpdate throws it
Fail(p) ==
  /\ procs[p].pc \in {"locked", "saved", "cleared"}
  /\ procs' = [procs EXCEPT ![p].pc = "returning", ![p].type = "E_STORAGE"]
  /\ UNCHANGED << users, tokens, nextId, now, ticks, stale, last, prev, lock, start, passwords, resetTokens, nextResetId, returned >>

NextStorage ==
  \/ NextConc
  \/ \E p \in Procs : Fail(p)

SpecStorage == InitConc /\ [][NextStorage]_vars

\* Accounts, reconciliation and verification at one moment.  Emails are
\* interchangeable, so the first account is created with the first of them.
\* every token is issued with the same secret
OneSecret == {[i \in 1..SecretLen |-> 97]}

Next ==
  \/ \E e \in Emails, p \in Emails \cup {Null} :
       (users[1].exists \/ e = "a@x.com") /\ CreateUser(e, p)
  \/ \E u \in UserIds, e \in Emails, s \in OneSecret : UpdateUserEmail(u, e, s)
  \/ \E u \in UserIds, s \in OneSecret :
       \E user \in Held(u) :
         users[u].exists /\ CreateEmailVerificationToken(user, FALSE, Undefined, s)
  \/ \E u \in UserIds : users[u].exists /\ ClearEmailVerificationTokens(u)
  \/ \E v \in WellFormed, forUpdate \in BOOLEAN : \E lax \in Builds(v) :
       VerifyEmail(v, forUpdate, lax)

Spec == Init /\ [][Next]_vars

\* The same with a moving clock, for accounts that use two emails.
ClockEmails == {"a@x.com", "b@y.com"}

NextClock ==
  \/ \E e \in ClockEmails, p \in ClockEmails \cup {Null} :
       (users[1].exists \/ e = "a@x.com") /\ CreateUser(e, p)
  \/ \E u \in UserIds, e \in ClockEmails, s \in OneSecret : UpdateUserEmail(u, e, s)
  \/ \E u \in UserIds, s \in OneSecret :
       \E user \in HeldWith(u, ClockEmails) :
         users[u].exists /\ CreateEmailVerificationToken(user, FALSE, Undefined, s)
  \/ \E u \in UserIds : users[u].exists /\ ClearEmailVerificationTokens(u)
  \/ \E v \in WellFormed, forUpdate \in BOOLEAN : \E lax \in Builds(v) :
       VerifyEmail(v, forUpdate, lax)
  \/ \E d \in TickSteps : Tick(d)

SpecClock == Init /\ [][NextClock]_vars

\* One account; its tokens, the clock and every presented value. The row
\* of the account is never written after it is created, so that every
\* instance of it carries the pending email of the row.
NextVerify ==
  \/ CreateUser("a@x.com", "a@x.com")
  \/ \E s \in Secrets :
       users[1].exists /\ CreateEmailVerificationToken(Found(1), FALSE, Undefined, s)
  \/ users[1].exists /\ ClearEmailVerificationTokens(1)
  \/ \E v \in Values \cup Inexact : \E lax \in Builds(v) : ProviderVerify(v, lax)
  \/ \E d \in TickSteps : Tick(d)

SpecVerify == Init /\ [][NextVerify]_vars

\* One account and its two token tables: throttled and plain issuance with
\* any window, on a clock that moves by half the default window.
ThrottleSteps == {ThrottleDuration \div 2}

NextThrottle ==
  \/ CreateUser("a@x.com", "a@x.com")
  \/ \E b \in BOOLEAN, d \in Windows \cup {Undefined}, s \in OneSecret :
       users[1].exists /\ CreateEmailVerificationToken(Found(1), b, d, s)
  \/ \E b \in BOOLEAN, d \in Windows \cup {Undefined}, s \in OneSecret :
       users[1].exists /\ CreateEmailVerificationTokenFixed(Found(1), b, d, s)
  \/ \E b \in BOOLEAN, d \in Windows \cup {Undefined}, s \in OneSecret :
       users[1].exists /\ CreatePasswordResetToken(1, b, d, s)
  \/ users[1].exists /\ ClearEmailVerificationTokens(1)
  \/ users[1].exists /\ ClearPasswordResetTokens(1)
  \/ \E d \in ThrottleSteps : Tick(d)

SpecThrottle == Init /\ [][NextThrottle]_vars

\* Two accounts, created before the first step so that no identifier is ever
\* given out twice, with the passwords they signed up with.
accounts(first, second) ==
  << [exists |-> TRUE, email |-> first[1], unverifiedEmail |-> first[2]],
     [exists |-> TRUE, email |-> second[1], unverifiedEmail |-> second[2]] >>

Accounts(first, second) ==
  /\ users = accounts(first, second)
  /\ tokens = {}
  /\ nextId = 1
  /\ now = 0
  /\ ticks = 0
  /\ stale = {}
  /\ last = NoCall
  /\ prev = NoCall
  /\ procs = [p \in Procs |-> IdleProc]
  /\ lock = FreeLock
  /\ start = [users |-> users, tokens |-> tokens, nextId |-> nextId]
  /\ passwords = [u \in UserIds |-> InitialPassword]
  /\ resetTokens = {}
  /\ nextResetId = 1
  /\ returned = NoReturn

\* The password flow: tokens of either account, every presented value with
\* either password, accounts that go away, and the clock.
InitReset == Accounts(<< "a@x.com", "a@x.com" >>, << "b@y.com", "b@y.com" >>)

NextReset ==
  \/ \E u \in UserIds, s \in OneSecret : CreatePasswordResetToken(u, FALSE, Undefined, s)
  \/ \E u \in UserIds : ClearPasswordResetTokens(u)
  \/ \E v \in WellFormed : \E lax \in Builds(v) : UserResetPassword(v, NewPassword, lax)
  \/ \E v \in Values, p \in Passwords : \E lax \in Builds(v) : ResetPassword(v, p, lax)
  \/ \E u \in UserIds : DeleteUser(u)
  \/ \E d \in TickSteps : Tick(d)

SpecReset == InitReset /\ [][NextReset]_vars

\* Both flows side by side: two accounts that wait for the same email to be
\* confirmed, tokens of both kinds, every presented value, accounts that go
\* away, and the clock.
InitFail == Accounts(<< "a@x.com", "b@y.com" >>, << "c@z.com", "b@y.com" >>)

\* the values presented here: every issued or issuable one, with the right
\* and the wrong secret, and two that do not decode
Presented == WellFormed \cup {NullString, << 12, 16 >>}

\* An account waits for b@y.com until it is confirmed, so that an instance
\* of it was found with that pending email or with none. A run stays with
\* the kind of token it issued first.
NextFail ==
  \/ \E u \in UserIds, s \in OneSecret :
       \E user \in HeldWith(u, {"b@y.com"}) :
         Unused(PasswordTable) /\ CreateEmailVerificationToken(user, FALSE, Undefined, s)
  \/ \E v \in Presented : \E lax \in Builds(v) : UserVerifyEmail(v, lax)
  \/ \E v \in WellFormed, forUpdate \in BOOLEAN : \E lax \in Builds(v) :
       VerifyEmail(v, forUpdate, lax)
  \/ \E s \in OneSecret :
       Unused(EmailTable) /\ CreatePasswordResetToken(1, FALSE, Undefined, s)
  \/ \E v \in Presented : \E lax \in Builds(v) : ResetPassword(v, NewPassword, lax)
  \/ DeleteUser(1)
  \/ \E d \in TickSteps : Tick(d)

SpecFail == InitFail /\ [][NextFail]_vars

\* ----------------------------------------------- concurrent resetPassword
\* a caller of resetPassword(value, arg) followed by clearPasswordResetTokens:
\* pc is its position, token the row provider.verify gave it, type the
\* outcome, changed whether its save replaced the stored password by another
ResetCall(value, newPassword) ==
  [pc |-> "start", value |-> value, arg |-> newPassword, token |-> NullToken,
   type |-> Null, changed |-> FALSE]

\* the passwords the two callers ask for
OtherPassword == "secret@456"
RacePasswords == {NewPassword, OtherPassword}

\* this.passwordResetTokens.verify(new Secret(tokenValue)), before the
\* transaction is opened
ResetVerify(p) ==
  /\ procs[p].pc = "start"
  /\ \E lax \in Builds(procs[p].value) : \E token \in {providerVerify(resetTokens, procs[p].value, now, lax)} :
       procs' = IF token = NullToken
                THEN [procs EXCEPT ![p].pc = "done",
                                   ![p].type = "E_INVALID_PASSWORD_TOKEN"]
                ELSE [procs EXCEPT ![p].pc = "verified", ![p].token = token]
  /\ UNCHANGED << users, tokens, nextId, now, ticks, stale, last, prev, lock, start, passwords, resetTokens, nextResetId, returned >>

\* inside the transaction: select the owner for update; without a row the
\* error is thrown and the transaction rolled back
ResetFind(p) ==
  /\ procs[p].pc = "verified"
  /\ lockFree(lock, procs[p].token.tokenable_id)
  /\ IF users[procs[p].token.tokenable_id].exists
     THEN /\ lock' = granted(lock, procs[p].token.tokenable_id, p)
          /\ procs' = [procs EXCEPT ![p].pc = "found"]
     ELSE /\ procs' = [procs EXCEPT ![p].pc = "done",
                                    ![p].type = "E_INVALID_PASSWORD_TOKEN"]
          /\ UNCHANGED lock
  /\ UNCHANGED << users, tokens, nextId, now, ticks, stale, last, prev, start, passwords, resetTokens, nextResetId, returned >>

\* user.password = newPassword, user.save(), and the commit that follows the
\* callback's return
ResetSave(p) ==
  /\ procs[p].pc = "found"
  /\ passwords' = [passwords EXCEPT ![procs[p].token.tokenable_id] = procs[p].arg]
  /\ lock' = released(lock, p)
  /\ procs' = [procs EXCEPT
       ![p].pc = "saved", ![p].type = "ok",
       ![p].changed = (passwords[procs[p].token.tokenable_id] # procs[p].arg)]
  /\ UNCHANGED << users, tokens, nextId, now, ticks, stale, last, prev, start, resetTokens, nextResetId, returned >>

\* the caller's user.clearPasswordResetTokens()
ResetClear(p) ==
  /\ procs[p].pc = "saved"
  /\ resetTokens' = deleteAll(resetTokens, procs[p].token.tokenable_id)
  /\ procs' = [procs EXCEPT ![p].pc = "done"]
  /\ UNCHANGED << users, tokens, nextId, now, ticks, stale, last, prev, lock, start, passwords, nextResetId, returned >>

\* Two callers, each with any well-formed value and either password, against an
\* owner that holds one or two tokens.
InitRaceReset ==
  /\ users = accounts(<< "a@x.com", "a@x.com" >>, << "b@y.com", "b@y.com" >>)
  /\ tokens = {}
  /\ nextId = 1
  /\ now = 0
  /\ ticks = 0
  /\ stale = {}
  /\ last = NoCall
  /\ prev = NoCall
  /\ procs \in [Procs -> {ResetCall(v, w) : v \in WellFormed, w \in RacePasswords}]
  /\ lock = FreeLock
  /\ start = [users |-> users, tokens |-> tokens, nextId |-> nextId]
  /\ passwords = [u \in UserIds |-> InitialPassword]
  /\ \E k \in 1..MaxTokens :
       /\ resetTokens = {newRow(i, ConcOwner, Null, secretOf(1), 0) : i \in 1..k}
       /\ nextResetId = k + 1
  /\ returned = NoReturn

NextRaceReset ==
  \/ \E p \in Procs : ResetVerify(p)
  \/ \E p \in Procs : ResetFind(p)
  \/ \E p \in Procs : ResetSave(p)
  \/ \E p \in Procs : ResetClear(p)

SpecRaceReset == InitRaceReset /\ [][NextRaceReset]_vars

\* ------------------------------------------------- concurrent verifyEmail
\* a caller of User.verifyEmail(value) followed by
\* clearEmailVerificationTokens.  forUpdate tells the two revisions of the
\* mixin apart: TRUE is the one that runs in a transaction and selects the
\* owner for update, FALSE the one of with_email_management.ts, which reads
\* and saves the owner with plain queries.
EmailCall(value, forUpdate) ==
  [pc |-> "start", value |-> value, forUpdate |-> forUpdate, token |-> NullToken,
   row |-> NoRow, saved |-> NoRow, type |-> Null]

\* select ... for update waits while another call keeps the row of that owner,
\* which it does from its own select for update to its commit
rowFree(p, u) ==
  \A q \in DOMAIN procs \ {p} :
    ~(/\ "forUpdate" \in DOMAIN procs[q]
      /\ procs[q].pc = "found" /\ procs[q].forUpdate
      /\ procs[q].token.tokenable_id = u)

\* this.emailVerificationTokens.verify(new Secret(tokenValue))
VerifyToken(p) ==
  /\ procs[p].pc = "start"
  /\ \E lax \in Builds(procs[p].value) : \E token \in {providerVerify(tokens, procs[p].value, now, lax)} :
       procs' = IF token = NullToken
                THEN [procs EXCEPT ![p].pc = "done", ![p].type = "E_INVALID_EMAIL_TOKEN"]
                ELSE [procs EXCEPT ![p].pc = "verified", ![p].token = token]
  /\ UNCHANGED << users, tokens, nextId, now, ticks, stale, last, prev, lock, start, passwords, resetTokens, nextResetId, returned >>

\* the query for another user whose email is the token's
VerifyOther(p) ==
  /\ procs[p].pc = "verified"
  /\ procs' = IF \E o \in UserIds :
                   /\ users[o].exists /\ users[o].email = procs[p].token.email
                   /\ o # procs[p].token.tokenable_id
              THEN [procs EXCEPT ![p].pc = "done", ![p].type = "E_INVALID_EMAIL_TOKEN"]
              ELSE [procs EXCEPT ![p].pc = "checked"]
  /\ UNCHANGED << users, tokens, nextId, now, ticks, stale, last, prev, lock, start, passwords, resetTokens, nextResetId, returned >>

\* the query for the owner whose pending email is the token's: for update it
\* waits for the row and keeps it, otherwise it just reads
VerifyFind(p) ==
  /\ procs[p].pc = "checked"
  /\ procs[p].forUpdate =>
       /\ rowFree(p, procs[p].token.tokenable_id)
       /\ lockFree(lock, procs[p].token.tokenable_id)
  /\ \E u \in {procs[p].token.tokenable_id} :
       IF users[u].exists /\ users[u].unverifiedEmail = procs[p].token.email
       THEN /\ procs' = [procs EXCEPT ![p].pc = "found", ![p].row = users[u]]
            /\ lock' = IF procs[p].forUpdate
                       THEN granted(lock, u, p)
                       ELSE lock
       ELSE /\ procs' = [procs EXCEPT ![p].pc = "done",
                                      ![p].type = "E_INVALID_EMAIL_TOKEN"]
            /\ UNCHANGED lock
  /\ UNCHANGED << users, tokens, nextId, now, ticks, stale, last, prev, start, passwords, resetTokens, nextResetId, returned >>

\* user.switchEmail(token.email).save() on the instance that was read, and
\* the commit where there is a transaction. The UPDATE sets the columns the
\* switch changed on the instance; the index refuses it when it sets email
\* to the email of another row. saved is the row the UPDATE left. The UPDATE
\* waits for a transaction of another call that holds the row, and for the
\* index.
VerifySave(p) ==
  /\ procs[p].pc = "found"
  /\ lock.holder[procs[p].token.tokenable_id] \in {0, p}
  /\ procs[p].row.email # procs[p].token.email => indexFree(p, procs[p].token.email)
  /\ \E u \in {procs[p].token.tokenable_id},
        user \in {switchEmail(procs[p].row, procs[p].token.email)} :
       IF user.email # procs[p].row.email /\ emailTaken(users, u, user.email)
       THEN /\ procs' = [procs EXCEPT ![p].pc = "done", ![p].type = "E_UNIQUE"]
            /\ UNCHANGED users
       ELSE /\ users' = [users EXCEPT ![u] = save(users[u], procs[p].row, user)]
            /\ procs' = [procs EXCEPT ![p].pc = "saved", ![p].type = "ok",
                                      ![p].saved = save(users[u], procs[p].row, user)]
  /\ lock' = released(lock, p)
  /\ UNCHANGED << tokens, nextId, now, ticks, stale, last, prev, start, passwords, resetTokens, nextResetId, returned >>

\* the caller's clearEmailVerificationTokens on the user that verifyEmail
\* returned. The verifyEmail of with_email_management.ts returns nothing:
\* the caller's user.clearEmailVerificationTokens() throws a TypeError and
\* the tokens stay
VerifyClear(p) ==
  /\ procs[p].pc = "saved"
  /\ IF procs[p].forUpdate
     THEN /\ tokens' = deleteAll(tokens, procs[p].token.tokenable_id)
          /\ procs' = [procs EXCEPT ![p].pc = "done"]
     ELSE /\ tokens' = tokens
          /\ procs' = [procs EXCEPT ![p].pc = "done", ![p].type = "TypeError"]
  /\ UNCHANGED << users, nextId, now, ticks, stale, last, prev, lock, start, passwords, resetTokens, nextResetId, returned >>

\* Two callers of one revision, each with any well-formed value, against an
\* owner whose pending email has one or two tokens.
InitRaceVerify ==
  /\ users = accounts(<< "a@x.com", "b@y.com" >>, << "c@z.com", "c@z.com" >>)
  /\ \E k \in 1..MaxTokens :
       /\ tokens = {newRow(i, ConcOwner, users[ConcOwner].unverifiedEmail,
                           secretOf(1), 0) : i \in 1..k}
       /\ nextId = k + 1
  /\ now = 0
  /\ ticks = 0
  /\ stale = {}
  /\ last = NoCall
  /\ prev = NoCall
  /\ \E f \in BOOLEAN :
       procs \in [Procs -> {EmailCall(v, f) : v \in WellFormed}]
  /\ lock = FreeLock
  /\ start = [users |-> users, tokens |-> tokens, nextId |-> nextId]
  /\ passwords = [u \in UserIds |-> InitialPassword]
  /\ resetTokens = {}
  /\ nextResetId = 1
  /\ returned = NoReturn

NextRaceVerify ==
  \/ \E p \in Procs : VerifyToken(p)
  \/ \E p \in Procs : VerifyOther(p)
  \/ \E p \in Procs : VerifyFind(p)
  \/ \E p \in Procs : VerifySave(p)
  \/ \E p \in Procs : VerifyClear(p)

SpecRaceVerify == InitRaceVerify /\ [][NextRaceVerify]_vars

\* Two owners after one email: the first account has it pending with a token,
\* the second is yet to be created. Two callers of verifyEmail, of either
\* revision, each with the value of the first or of the second token, run
\* step by step among account creation, issuance and the statements of a
\* third caller's updateUserEmail for any owner with any email.
RaceEmail == "c@z.com"
\* the ids the token table gives out here: one for the token of each owner
\* and one for the token an updateUserEmail issues
RaceTokens == MaxTokens + 1
\* the email the last of them is issued for
LastEmail == "b@y.com"
\* the caller of updateUserEmail, next to the callers of verifyEmail
Updater == Cardinality(Procs) + 1
RaceValues == {computeValue(Number(i), secretOf(1)) : i \in 1..MaxTokens}

InitRaceUnique ==
  /\ users = << [exists |-> TRUE, email |-> "a@x.com", unverifiedEmail |-> RaceEmail],
                NoRow >>
  /\ tokens = {newRow(1, 1, RaceEmail, secretOf(1), 0)}
  /\ nextId = 2
  /\ now = 0
  /\ ticks = 0
  /\ stale = {}
  /\ last = NoCall
  /\ prev = NoCall
  /\ \E f \in BOOLEAN :
       \E calls \in [Procs -> {EmailCall(v, f) : v \in RaceValues}] :
         procs = calls @@ (Updater :> IdleProc)
  /\ lock = FreeLock
  /\ start = [users |-> users, tokens |-> tokens, nextId |-> nextId]
  /\ passwords = [u \in UserIds |-> InitialPassword]
  /\ resetTokens = {}
  /\ nextResetId = 1
  /\ returned = NoReturn

\* the caller, who has made no call yet, calls updateUserEmail(user,
\* newEmail); the table has an id left for the token the call may issue
CallUpdateUserEmail(p, u, newEmail) ==
  /\ procs[p].pc = "idle"
  /\ users[u].exists
  /\ nextId <= RaceTokens
  /\ procs' = [procs EXCEPT ![p] = [IdleProc EXCEPT !.pc = "start", !.owner = u,
                                                     !.arg = newEmail]]
  /\ UNCHANGED << users, tokens, nextId, now, ticks, stale, last, prev, lock, start, passwords, resetTokens, nextResetId, returned >>

NextRaceUnique ==
  \/ \E p \in Procs : VerifyToken(p)
  \/ \E p \in Procs : VerifyOther(p)
  \/ \E p \in Procs : VerifyFind(p)
  \/ \E p \in Procs : VerifySave(p)
  \/ \E p \in Procs : VerifyClear(p)
  \/ \E e \in Emails, pending \in {RaceEmail, Null} :
       indexFree(0, e) /\ CreateUser(e, pending)
  \/ \E u \in UserIds, e \in Emails : CallUpdateUserEmail(Updater, u, e)
  \/ Lock(Updater)
  \/ Save(Updater)
  \/ Clear(Updater)
  \/ Create(Updater)
  \/ EndTransaction(Updater)
  \/ \E u \in UserIds : \E user \in HeldWith(u, {RaceEmail}) :
       users[u].exists
         /\ CreateEmailVerificationToken(user, FALSE, Undefined, secretOf(1))

SpecRaceUnique == InitRaceUnique /\ [][NextRaceUnique]_vars

\* ------------------------------------------- concurrent throttled issuance
\* a caller of user.createEmailVerificationToken(true) or
\* user.createPasswordResetToken(true) with the default window: pc is its
\* position, tb the table of its provider, type its outcome, date the clock
\* as create read it for the row, token the id of the row it inserted
IssueCall(tb) ==
  [pc |-> "start", tb |-> tb, type |-> Null, date |-> 0 - 1, token |-> 0]

\* provider.lastCreatedAt(self) and the comparison with the clock
IssueRead(p) ==
  /\ procs[p].pc = "start"
  /\ procs' = IF throttled(rowsIn(procs[p].tb), ConcOwner, TRUE, ThrottleDuration, now)
              THEN [procs EXCEPT ![p].pc = "done", ![p].type = "null"]
              ELSE [procs EXCEPT ![p].pc = "creating"]
  /\ UNCHANGED << users, tokens, nextId, now, ticks, stale, last, prev, lock, start, passwords, resetTokens, nextResetId, returned >>

\* provider.create(self, ...) up to its INSERT: once it has the query
\* client it makes the transient token and the row, which read the clock
IssueTransient(p) ==
  /\ procs[p].pc = "creating"
  /\ procs' = [procs EXCEPT ![p].pc = "inserting", ![p].date = now]
  /\ UNCHANGED << users, tokens, nextId, now, ticks, stale, last, prev, lock, start, passwords, resetTokens, nextResetId, returned >>

\* the INSERT of provider.create, of the row as it was made
IssueCreate(p) ==
  /\ procs[p].pc = "inserting"
  /\ \E tb \in {procs[p].tb} :
       /\ nextIdIn(tb) <= MaxTokens
       /\ Stored(tb, rowsIn(tb) \cup
                   {insertedRow(nextIdIn(tb), ConcOwner,
                                IF tb = EmailTable
                                THEN users[ConcOwner].unverifiedEmail ELSE Null,
                                secretOf(p), Undefined, procs[p].date,
                                procs[p].date)},
                 nextIdIn(tb) + 1)
       /\ procs' = [procs EXCEPT ![p].pc = "done", ![p].type = "token",
                                 ![p].token = nextIdIn(tb)]
  /\ UNCHANGED << users, now, ticks, stale, last, prev, lock, start, passwords, returned >>

\* Two callers for one owner whose last token, if it has one, was created at
\* the start of the clock; the clock moves between their steps.
InitRaceIssue ==
  /\ users = accounts(<< "a@x.com", "b@y.com" >>, << "c@z.com", "c@z.com" >>)
  /\ procs \in [Procs -> {IssueCall(tb) : tb \in Tables}]
  /\ \E k \in 0..1 :
       /\ tokens = {newRow(i, ConcOwner, users[ConcOwner].unverifiedEmail,
                           secretOf(1), 0) : i \in 1..k}
       /\ resetTokens = {newRow(i, ConcOwner, Null, secretOf(1), 0) : i \in 1..k}
       /\ nextId = k + 1
       /\ nextResetId = k + 1
  /\ now = 0
  /\ ticks = 0
  /\ stale = {}
  /\ last = NoCall
  /\ prev = NoCall
  /\ lock = FreeLock
  /\ start = [users |-> users, tokens |-> tokens, nextId |-> nextId]
  /\ passwords = [u \in UserIds |-> InitialPassword]
  /\ returned = NoReturn

NextRaceIssue ==
  \/ \E p \in Procs : IssueRead(p)
  \/ \E p \in Procs : IssueTransient(p)
  \/ \E p \in Procs : IssueCreate(p)
  \/ \E d \in ThrottleSteps : Tick(d)

SpecRaceIssue == InitRaceIssue /\ [][NextRaceIssue]_vars

\* The three flows to their end. Two calls run step by step. They are of
\* one flow: updateUserEmail on one owner, resetPassword with tokens of one
\* owner, verifyEmail with tokens of one owner or of two owners that have the
\* same pending email; or each is any call of any flow for either owner. A
\* call takes its next step whenever it can, and a statement it sends to the
\* database inside its transaction may fail.
InitRaceOwners ==
  /\ users = accounts(<< "a@x.com", RaceEmail >>, << "b@y.com", RaceEmail >>)
  /\ tokens = {newRow(u, u, RaceEmail, secretOf(1), 0) : u \in UserIds}
  /\ nextId = MaxUsers + 1
  /\ now = 0
  /\ ticks = 0
  /\ stale = {}
  /\ last = NoCall
  /\ prev = NoCall
  /\ \E f \in BOOLEAN :
       procs \in [Procs -> {EmailCall(computeValue(Number(u), secretOf(1)), f) : u \in UserIds}]
  /\ lock = FreeLock
  /\ start = [users |-> users, tokens |-> tokens, nextId |-> nextId]
  /\ passwords = [u \in UserIds |-> InitialPassword]
  /\ resetTokens = {}
  /\ nextResetId = 1
  /\ returned = NoReturn

\* a query or the save of verifyEmail rejects with an error of the database:
\* the transaction, where there is one, is rolled back and the error thrown
VerifyFail(p) ==
  /\ procs[p].pc \in {"verified", "checked", "found"}
  /\ procs' = [procs EXCEPT ![p].pc = "done", ![p].type = "E_STORAGE"]
  /\ lock' = released(lock, p)
  /\ UNCHANGED << users, tokens, nextId, now, ticks, stale, last, prev, start, passwords, resetTokens, nextResetId, returned >>

\* the select or the save of resetPassword rejects with an error of the
\* database: the transaction is rolled back and the error thrown
ResetFail(p) ==
  /\ procs[p].pc \in {"verified", "found"}
  /\ procs' = [procs EXCEPT ![p].pc = "done", ![p].type = "E_STORAGE"]
  /\ lock' = released(lock, p)
  /\ UNCHANGED << users, tokens, nextId, now, ticks, stale, last, prev, start, passwords, resetTokens, nextResetId, returned >>

\* the calls of the three flows for one owner: updateUserEmail with any
\* email, verifyEmail of either revision and resetPassword with the value of
\* the owner's token
CallsFor(u) ==
  {[IdleProc EXCEPT !.pc = "start", !.owner = u, !.arg = e] : e \in Emails}
    \cup {EmailCall(computeValue(Number(u), secretOf(1)), f) : f \in BOOLEAN}
    \cup {ResetCall(computeValue(Number(u), secretOf(1)), NewPassword)}

\* Two owners: both wait for the confirmation of RaceEmail, or the second,
\* or both, have just been created and are yet to confirm the only email they
\* have. Each has a token of either kind. Each caller makes any call of any
\* flow for either owner.
MixedUsers ==
  {accounts(<< "a@x.com", RaceEmail >>, << "b@y.com", RaceEmail >>),
   accounts(<< "a@x.com", RaceEmail >>, << "b@y.com", "b@y.com" >>),
   accounts(<< "a@x.com", "a@x.com" >>, << "b@y.com", "b@y.com" >>)}

InitMixed ==
  /\ users \in MixedUsers
  /\ tokens = {newRow(u, u, users[u].unverifiedEmail, secretOf(1), 0) : u \in UserIds}
  /\ nextId = MaxUsers + 1
  /\ now = 0
  /\ ticks = 0
  /\ stale = {}
  /\ last = NoCall
  /\ prev = NoCall
  /\ procs \in [Procs -> UNION {CallsFor(u) : u \in UserIds}]
  /\ lock = FreeLock
  /\ start = [users |-> users, tokens |-> tokens, nextId |-> nextId]
  /\ passwords = [u \in UserIds |-> InitialPassword]
  /\ resetTokens = {newRow(u, u, Null, secretOf(1), 0) : u \in UserIds}
  /\ nextResetId = MaxUsers + 1
  /\ returned = NoReturn

InitLive ==
  InitConc \/ InitRaceReset \/ InitRaceVerify \/ InitRaceOwners \/ InitMixed

\* the flow a call belongs to
FlowOf(p) ==
  IF "freshUser" \in DOMAIN procs[p] THEN "updateUserEmail"
  ELSE IF "forUpdate" \in DOMAIN procs[p] THEN "verifyEmail"
  ELSE "resetPassword"

StepLive(p) ==
  \/ /\ FlowOf(p) = "updateUserEmail"
     /\ Lock(p) \/ Save(p) \/ Clear(p) \/ Create(p) \/ EndTransaction(p)
          \/ Fail(p)
  \/ /\ FlowOf(p) = "resetPassword"
     /\ ResetVerify(p) \/ ResetFind(p) \/ ResetSave(p) \/ ResetClear(p)
          \/ ResetFail(p)
  \/ /\ FlowOf(p) = "verifyEmail"
     /\ VerifyToken(p) \/ VerifyOther(p) \/ VerifyFind(p) \/ VerifySave(p)
          \/ VerifyClear(p) \/ VerifyFail(p)

NextLive == \E p \in Procs : StepLive(p)

SpecLive ==
  InitLive /\ [][NextLive]_vars /\ \A p \in Procs : WF_vars(StepLive(p))

\* The providers on their own: two accounts, every call of one provider with
\* a good or a bad user argument, and the clock. The providers share no
\* state; a run stays with the provider it first created a token with.
OwnerArgs == {Persisted(u) : u \in UserIds} \cup {Owner(FALSE, 1), Owner(TRUE, 0)}
ClockSteps == {1, ExpiresIn}

InitProvider == Accounts(<< "a@x.com", "a@x.com" >>, << "b@y.com", "b@y.com" >>)

NextProvider ==
  \/ \E tb \in Tables, user \in OwnerArgs, s \in OneSecret :
       (\A o \in Others(tb) : Unused(o))
         /\ ProviderCreate(tb, user, "c@z.com", s, Undefined, 0)
  \/ \E tb \in Tables, user \in OwnerArgs, i \in 1..MaxTokens :
       (\A o \in Others(tb) : Unused(o)) /\ ProviderFind(tb, user, i)
  \/ \E tb \in Tables, user \in OwnerArgs, i \in 1..MaxTokens :
       (\A o \in Others(tb) : Unused(o)) /\ ProviderDelete(tb, user, i)
  \/ \E tb \in Tables, user \in OwnerArgs :
       (\A o \in Others(tb) : Unused(o)) /\ ProviderDeleteAll(tb, user)
  \/ \E tb \in Tables, user \in OwnerArgs :
       (\A o \in Others(tb) : Unused(o)) /\ ProviderAll(tb, user)
  \/ \E tb \in Tables, user \in OwnerArgs :
       (\A o \in Others(tb) : Unused(o)) /\ ProviderLastCreatedAt(tb, user)
  \/ \E v \in WellFormed : \E lax \in Builds(v) : Unused(PasswordTable) /\ ProviderVerify(v, lax)
  \/ \E d \in ClockSteps : Tick(d)

SpecProvider == InitProvider /\ [][NextProvider]_vars

\* One caller, two accounts: creates and deletes of one provider on users
\* with and without a transaction, commits and rollbacks. Calls without a
\* transaction are made while none is open.
NextTrx ==
  \/ Transaction
  \/ \E tb \in Tables, u \in UserIds, s \in OneSecret :
       (\A o \in Others(tb) : Unused(o)) /\ TrxCreate(tb, Persisted(u), "c@z.com", s)
  \/ \E tb \in Tables, u \in UserIds, i \in 1..MaxTokens :
       (\A o \in Others(tb) : Unused(o)) /\ TrxDelete(tb, Persisted(u), i)
  \/ \E tb \in Tables, u \in UserIds :
       (\A o \in Others(tb) : Unused(o)) /\ TrxDeleteAll(tb, Persisted(u))
  \/ \E tb \in Tables, u \in UserIds, s \in OneSecret :
       (\A o \in Others(tb) : Unused(o)) /\ TrxIssue(tb, Persisted(u), s)
  \/ \E d \in ThrottleSteps : Tick(d)
  \/ \E tb \in Tables : (\A o \in Others(tb) : Unused(o)) /\ Commit(tb)
  \/ \E tb \in Tables : (\A o \in Others(tb) : Unused(o)) /\ Rollback(tb)
  \/ \E tb \in Tables, u \in UserIds, s \in OneSecret :
       /\ ~TrxOpen /\ \A o \in Others(tb) : Unused(o)
       /\ ProviderCreate(tb, Persisted(u), "c@z.com", s, Undefined, 0)
  \/ \E tb \in Tables, u \in UserIds, i \in 1..MaxTokens :
       /\ ~TrxOpen /\ \A o \in Others(tb) : Unused(o)
       /\ ProviderDelete(tb, Persisted(u), i)
  \/ \E tb \in Tables, u \in UserIds :
       /\ ~TrxOpen /\ \A o \in Others(tb) : Unused(o)
       /\ ProviderDeleteAll(tb, Persisted(u))

SpecTrx == InitProvider /\ [][NextTrx]_vars

\* Issuance for one account whose pending email comes and goes: created with
\* or without one, changed, reverted and verified; email tokens are issued
\* with and without throttling, by either revision and through the provider
\* itself, password tokens with throttling, and both are cleared. A run
\* stays with the kind of token it issued first.
NextIssue ==
  \/ \E pending \in {"a@x.com", Null} : CreateUser("a@x.com", pending)
  \/ \E e \in Emails, s \in OneSecret :
       Unused(PasswordTable) /\ UpdateUserEmail(1, e, s)
  \/ \E b \in BOOLEAN, s \in OneSecret, user \in Held(1) :
       /\ users[1].exists /\ Unused(PasswordTable)
       /\ CreateEmailVerificationToken(user, b, Undefined, s)
  \/ \E b \in BOOLEAN, s \in OneSecret, user \in Held(1) :
       /\ users[1].exists /\ Unused(PasswordTable)
       /\ CreateEmailVerificationTokenFixed(user, b, Undefined, s)
  \/ \E s \in OneSecret :
       /\ users[1].exists /\ Unused(PasswordTable)
       /\ ProviderCreate(EmailTable, Persisted(1), "c@z.com", s, Undefined, 0)
  \/ \E v \in WellFormed, forUpdate \in BOOLEAN : \E lax \in Builds(v) :
       VerifyEmail(v, forUpdate, lax)
  \/ users[1].exists /\ ClearEmailVerificationTokens(1)
  \/ \E s \in OneSecret :
       /\ users[1].exists /\ Unused(EmailTable)
       /\ CreatePasswordResetToken(1, TRUE, Undefined, s)
  \/ users[1].exists /\ ClearPasswordResetTokens(1)
  \/ \E d \in ThrottleSteps : Tick(d)

SpecIssue == Init /\ [][NextIssue]_vars

\* The codec on its own: a token is constructed from an identifier and a
\* secret, which computes its value, and the value is decoded. The secrets
\* are the UTF-8 bytes of the strings of up to CodecLen bytes over ".", "a"
\* and e with an acute accent, the empty string included. The identifiers
\* are numbers of one to four digits and the strings '', '12', 'a.a' and
\* e with an acute accent.
CodecNumbers == {0, 1, 10, 123, 4567}
CodecTexts == {<< >>, << 49, 50 >>, << 97, 46, 97 >>, << 195, 169 >>}
CodecIds == {Number(n) : n \in CodecNumbers} \cup {Text(bs) : bs \in CodecTexts}
CodecBytes == {46, 97, 195, 169}
CodecSecrets ==
  {bs \in UNION {[1..n -> CodecBytes] : n \in 0..CodecLen} : IsUtf8(bs)}

\* the attributes given to the constructor
InitCodec ==
  /\ users = [u \in UserIds |-> NoRow]
  /\ tokens = {}
  /\ nextId = 1
  /\ now = 0
  /\ ticks = 0
  /\ stale = {}
  /\ last = NoCall
  /\ prev = NoCall
  /\ procs = [p \in Procs |-> IdleProc]
  /\ lock = FreeLock
  /\ start = [users |-> users, tokens |-> tokens, nextId |-> nextId]
  /\ passwords = [u \in UserIds |-> InitialPassword]
  /\ resetTokens = {}
  /\ nextResetId = 1
  /\ \E i \in CodecIds, s \in CodecSecrets :
       returned = [NoReturn EXCEPT !.rows =
                     << [identifier |-> i, secret |-> s, value |-> NullString] >>]

\* new EmailVerificationToken({ identifier, secret, ... }): computes the value
Construct ==
  /\ Len(returned.rows) = 1
  /\ returned.rows[1].value = NullString
  /\ returned' = [returned EXCEPT !.rows[1].value =
                    computeValue(returned.rows[1].identifier, returned.rows[1].secret)]
  /\ last' = call("new", 0, Null, "token", 0)
  /\ prev' = NoCall
  /\ UNCHANGED << users, tokens, nextId, now, ticks, stale, procs, lock, start, passwords, resetTokens, nextResetId >>

\* EmailVerificationToken.decode(token.value.release())
DecodeValue ==
  /\ Len(returned.rows) = 1
  /\ returned.rows[1].value # NullString
  /\ returned' = [returned EXCEPT !.rows =
                    Append(returned.rows,
                           decode(returned.rows[1].value))]
  /\ last' = call("decode", 0, Null,
                  IF decode(returned.rows[1].value) = NullDecoded
                  THEN "null" ELSE "decoded", 0)
  /\ prev' = NoCall
  /\ UNCHANGED << users, tokens, nextId, now, ticks, stale, procs, lock, start, passwords, resetTokens, nextResetId >>

\* what decode may be handed: something that is not a string, every string
\* of up to DecodeLen characters over two characters of the alphabet, the
\* separator and a character outside the alphabet, and the values presented
\* to the flows
DecodeChars == {12, 16, DOT, BAD}
DecodeInputs ==
  {NullString} \cup UNION {[1..n -> DecodeChars] : n \in 0..DecodeLen} \cup Values

\* EmailVerificationToken.decode(value) for any value
Decode(value) ==
  /\ Len(returned.rows) = 1
  /\ returned.rows[1].value = NullString
  /\ returned' = [returned EXCEPT !.rows = << [value |-> value], decode(value) >>]
  /\ last' = call("decode(value)", 0, Null,
                  IF decode(value) = NullDecoded THEN "null" ELSE "decoded", 0)
  /\ prev' = NoCall
  /\ UNCHANGED << users, tokens, nextId, now, ticks, stale, procs, lock, start, passwords, resetTokens, nextResetId >>

NextCodec ==
  \/ Construct
  \/ DecodeValue
  \/ \E value \in DecodeInputs : Decode(value)

SpecCodec == InitCodec /\ [][NextCodec]_vars

\* create with a lifetime of its own and a clock that moves while it runs
TtlArgs == {Undefined, 0, ExpiresIn \div 2}

NextCreate ==
  \/ \E tb \in Tables, u \in UserIds, s \in OneSecret, e \in TtlArgs, d \in Drift :
       (\A o \in Others(tb) : Unused(o))
         /\ ProviderCreate(tb, Persisted(u), "c@z.com", s, e, d)
  \/ \E tb \in Tables, u \in UserIds :
       (\A o \in Others(tb) : Unused(o)) /\ ProviderDeleteAll(tb, Persisted(u))
  \/ \E d \in Drift \ {0} : Tick(d)

SpecCreate == InitProvider /\ [][NextCreate]_vars

\* ------------------------------------------------------------------ claims
\* the words of the decision table, on the row the call found
Pending(c) == IF c.unverifiedEmail # Null THEN c.unverifiedEmail ELSE c.email
IsUpdate(c) == c.op = "updateUserEmail"
UnchangedCase(c) == Pending(c) = c.arg
RevertedCase(c) == c.unverifiedEmail # Null /\ c.arg = c.email
Owned(u) == {t \in tokens : t.tokenable_id = u}
OneTokenFor(u, e) == \E t \in tokens : Owned(u) = {t} /\ t.email = e
HeldByOther(u, e) == \E o \in UserIds \ {u} : users[o].exists /\ users[o].email = e
RowIs(u, email, unverifiedEmail) ==
  users[u].email = email /\ users[u].unverifiedEmail = unverifiedEmail

\* what C1 promises of a Changed call
IssuedPost(c) ==
  /\ c.result = "ISSUED_TOKEN"
  /\ RowIs(c.owner, IF c.email = c.unverifiedEmail THEN c.arg ELSE c.email, c.arg)
  /\ OneTokenFor(c.owner, c.arg)

\* C1 as stated: a call that is neither Unchanged nor Reverted returns
\* ISSUED_TOKEN, leaves unverifiedEmail = newEmail, sets email to newEmail
\* iff email = unverifiedEmail held before, and leaves exactly one token,
\* for newEmail.
C1_AsStated ==
  (IsUpdate(last) /\ ~UnchangedCase(last) /\ ~RevertedCase(last)) => IssuedPost(last)

\* C1 amended: the same, except that when email = unverifiedEmail held before
\* and another owner has newEmail as confirmed email the unique index on
\* email refuses the save: the call fails and the owner's row and every
\* token are as before.
C1_Changed ==
  [][ (IsUpdate(last') /\ ~UnchangedCase(last') /\ ~RevertedCase(last')) =>
        IF last'.email = last'.unverifiedEmail
           /\ \E o \in UserIds \ {last'.owner} :
                users[o].exists /\ users[o].email = last'.arg
        THEN last'.result = "E_UNIQUE" /\ users' = users /\ tokens' = tokens
        ELSE IssuedPost(last)' ]_vars

\* a Changed call that found a pending email other than the confirmed one
\* and older tokens: the pending email moved, the old tokens are gone
C1_Witness ==
  /\ IsUpdate(last) /\ last.result = "ISSUED_TOKEN" /\ last.had >= 1
  /\ last.unverifiedEmail # Null /\ last.unverifiedEmail # last.email
  /\ RowIs(last.owner, last.email, last.arg)

\* C2: when unverifiedEmail is set, differs from newEmail, and newEmail is
\* the confirmed email, the call returns REVERTED, unverifiedEmail is null,
\* email is unchanged and no token of the owner is stored.
C2_Reverted ==
  (IsUpdate(last) /\ last.unverifiedEmail # Null /\ last.unverifiedEmail # last.arg
     /\ last.arg = last.email)
  => /\ last.result = "REVERTED"
     /\ RowIs(last.owner, last.email, Null)
     /\ Owned(last.owner) = {}

C2_Witness ==
  /\ IsUpdate(last) /\ last.result = "REVERTED" /\ last.had >= 1
  /\ RowIs(last.owner, last.arg, Null) /\ Owned(last.owner) = {}

\* C3: when newEmail is the effective pending address the call returns
\* SKIPPED and the users and tokens tables are as before; this holds also
\* when email = unverifiedEmail = newEmail (SKIPPED, not REVERTED).
C3_Skipped ==
  [][ (IsUpdate(last') /\ UnchangedCase(last')) =>
        last'.result = "SKIPPED" /\ users' = users /\ tokens' = tokens ]_vars

C3_Witness ==
  /\ IsUpdate(last) /\ last.result = "SKIPPED" /\ last.had >= 1
  /\ last.email = last.arg /\ last.unverifiedEmail = last.arg
  /\ Cardinality(Owned(last.owner)) = last.had

\* C4 as stated: from email = unverifiedEmail = a, a call with b # a returns
\* ISSUED_TOKEN, sets unverifiedEmail = b, leaves email = a and leaves
\* exactly one token.
C4_AsStated ==
  (IsUpdate(last) /\ last.email = last.unverifiedEmail /\ last.arg # last.email)
  => /\ last.result = "ISSUED_TOKEN"
     /\ RowIs(last.owner, last.email, last.arg)
     /\ OneTokenFor(last.owner, last.arg)

\* C4 amended: from email = unverifiedEmail = a, a call with b # a that no
\* other owner has as confirmed email returns ISSUED_TOKEN, sets both
\* unverifiedEmail and email to b and leaves exactly one token, for b; when
\* another owner has b as confirmed email the call fails and the row is as
\* before.
C4_FirstEmail ==
  (IsUpdate(last) /\ last.email = last.unverifiedEmail /\ last.arg # last.email)
  => IF HeldByOther(last.owner, last.arg)
     THEN last.result = "E_UNIQUE" /\ RowIs(last.owner, last.email, last.email)
     ELSE /\ last.result = "ISSUED_TOKEN"
          /\ RowIs(last.owner, last.arg, last.arg)
          /\ OneTokenFor(last.owner, last.arg)

C4_Witness ==
  /\ IsUpdate(last) /\ last.result = "ISSUED_TOKEN" /\ last.had >= 1
  /\ last.email = last.unverifiedEmail /\ last.arg # last.email
  /\ RowIs(last.owner, last.arg, last.arg)

\* the two calls of C5: prev is updateUserEmail(owner, b), last is
\* updateUserEmail(owner, a), where a was the confirmed email before prev
TwoStep == IsUpdate(prev) /\ IsUpdate(last) /\ prev.owner = last.owner
           /\ prev.arg # prev.email /\ last.arg = prev.email

\* C5 as stated: from email = unverifiedEmail = a, after updateUserEmail(b)
\* the call updateUserEmail(a) returns REVERTED, leaves unverifiedEmail null
\* and no token.
C5_AsStated ==
  (TwoStep /\ prev.email = prev.unverifiedEmail)
  => /\ last.result = "REVERTED"
     /\ users[last.owner].unverifiedEmail = Null
     /\ Owned(last.owner) = {}

\* C5 amended: from email = unverifiedEmail = a the first call moves both
\* columns to b, so the second call returns ISSUED_TOKEN and leaves
\* email = unverifiedEmail = a and exactly one token, for a (and when the
\* first call was refused because another owner holds b, the second returns
\* SKIPPED).  The second call returns REVERTED, with unverifiedEmail null and
\* no token, when the sequence starts from a confirmed email a that differs
\* from unverifiedEmail.
C5_TwoStep ==
  TwoStep =>
    IF prev.email # prev.unverifiedEmail THEN
      /\ last.result = "REVERTED"
      /\ RowIs(last.owner, prev.email, Null)
      /\ Owned(last.owner) = {}
    ELSE IF prev.result = "ISSUED_TOKEN" THEN
      /\ last.result = "ISSUED_TOKEN"
      /\ RowIs(last.owner, prev.email, prev.email)
      /\ OneTokenFor(last.owner, prev.email)
    ELSE
      /\ prev.result = "E_UNIQUE"
      /\ last.result = "SKIPPED"
      /\ RowIs(last.owner, prev.email, prev.email)

C5_Witness ==
  /\ TwoStep /\ prev.email = prev.unverifiedEmail /\ prev.result = "ISSUED_TOKEN"
  /\ last.result = "ISSUED_TOKEN" /\ RowIs(last.owner, prev.email, prev.email)


\* both concurrent calls have returned
AllDone == \A p \in Procs : procs[p].pc = "done"
Outcome(p) == procs[p].type

\* the two calls run one after the other on the tables they started from,
\* in the order the row lock was granted
SerialFirst ==
  reconcile(start.users, start.tokens, ConcOwner, procs[lock.order[1]].arg,
            start.nextId, secretOf(lock.order[1]), now)
SerialSecond ==
  reconcile(SerialFirst.users, SerialFirst.tokens, ConcOwner,
            procs[lock.order[2]].arg,
            IF SerialFirst.type = "ISSUED_TOKEN" THEN start.nextId + 1
                                                 ELSE start.nextId,
            secretOf(lock.order[2]), now)
SerialEquivalent ==
  /\ Len(lock.order) = 2
  /\ Outcome(lock.order[1]) = SerialFirst.type
  /\ Outcome(lock.order[2]) = SerialSecond.type
  /\ users = SerialSecond.users
  /\ tokens = SerialSecond.tokens
TokensFollowPending ==
  \A t \in Owned(ConcOwner) : t.email = users[ConcOwner].unverifiedEmail

\* C6 as stated: after two concurrent updateUserEmail calls on one owner
\* the tables are those of the two calls run in the order the lock was
\* granted, the owner has at most one token, and a remaining token's email
\* is the owner's unverifiedEmail.
C6_AsStated ==
  AllDone => /\ SerialEquivalent
             /\ Cardinality(Owned(ConcOwner)) <= 1
             /\ TokensFollowPending

\* C6 amended: the tables are those of the two calls run in the order the
\* lock was granted, and a remaining token's email is the owner's
\* unverifiedEmail; the owner ends with at most one token when one of the
\* calls returned ISSUED_TOKEN or REVERTED, and when neither did (both were
\* SKIPPED or refused) the owner's tokens are those stored before the calls,
\* which can be more than one.
C6_Serial ==
  AllDone => /\ SerialEquivalent
             /\ TokensFollowPending
             /\ IF \E p \in Procs : Outcome(p) \in {"ISSUED_TOKEN", "REVERTED"}
                THEN Cardinality(Owned(ConcOwner)) <= 1
                ELSE tokens = start.tokens

\* two calls for two new addresses, on an owner that had two tokens: both
\* issued, one token left, for the address of the second caller
C6_Witness ==
  /\ AllDone /\ \A p \in Procs : Outcome(p) = "ISSUED_TOKEN"
  /\ Cardinality(start.tokens) = 2 /\ lock.order = << 2, 1 >>
  /\ OneTokenFor(ConcOwner, procs[1].arg)
  /\ users[ConcOwner].unverifiedEmail = procs[1].arg

\* the stored token a presented value stands for: the row it names, when the
\* secret has the stored hash and the row is not expired
Presents(v, t) ==
  /\ t \in tokens
  /\ \E sec \in Secrets : v = computeValue(Number(t.id), sec) /\ sha256(sec) = t.hash
  /\ ~(t.expires_at < now)

\* ... and whose email is still the pending email of its owner
PresentsPending(v, t) ==
  /\ Presents(v, t)
  /\ users[t.tokenable_id].exists
  /\ users[t.tokenable_id].unverifiedEmail = t.email

\* what C7 promises of a verification with the token t
Promoted(t) ==
  /\ last'.result = "ok"
  /\ users'[t.tokenable_id].email = t.email
  /\ users'[t.tokenable_id].unverifiedEmail = Null
  /\ \A r \in tokens' : r.tokenable_id # t.tokenable_id

\* C7 as stated: verifyEmail with any live token of the owner whose email is
\* the owner's unverifiedEmail, while no other owner has that email as
\* confirmed email, sets the owner's email to the token's email,
\* unverifiedEmail to null, and leaves no token of the owner stored,
\* whichever token was used. On the mixin of with_email_management.ts the
\* helper throws after the promotion and the tokens stay.
C7_AsStated ==
  [][ last'.op = "verifyEmail" => \A v \in WellFormed : \A t \in tokens :
        (PresentsPending(v, t) /\ ~HeldByOther(t.tokenable_id, t.email)
           /\ \E forUpdate \in BOOLEAN, lax \in Builds(v) : VerifyEmail(v, forUpdate, lax))
        => Promoted(t) ]_vars

\* the same promise of the helper on the mixin whose verifyEmail returns
\* the user
C7_Verified ==
  [][ last'.op = "verifyEmail" => \A v \in WellFormed : \A t \in tokens :
        (PresentsPending(v, t) /\ ~HeldByOther(t.tokenable_id, t.email)
           /\ \E lax \in Builds(v) : VerifyEmail(v, TRUE, lax))
        => Promoted(t) ]_vars

\* a verification that found two tokens of the owner and a confirmed email
\* other than the pending one
C7_Witness ==
  /\ last.op = "verifyEmail" /\ last.result = "ok" /\ last.had >= 2
  /\ last.email # last.unverifiedEmail
  /\ RowIs(last.owner, last.unverifiedEmail, Null)
  /\ Owned(last.owner) = {}

\* C8: verifyEmail with an otherwise valid token for email E fails with
\* E_INVALID_EMAIL_TOKEN, the owner's email and unverifiedEmail as before,
\* exactly when another owner has E as confirmed email; E being only the
\* unverifiedEmail of another owner does not block the verification.
C8_Taken ==
  [][ last'.op = "verifyEmail" => \A v \in WellFormed : \A t \in tokens :
        (PresentsPending(v, t)
           /\ \E forUpdate \in BOOLEAN, lax \in Builds(v) : VerifyEmail(v, forUpdate, lax))
        => /\ HeldByOther(t.tokenable_id, t.email)
                <=> last'.result = "E_INVALID_EMAIL_TOKEN"
           /\ last'.result = "E_INVALID_EMAIL_TOKEN"
                => users'[t.tokenable_id] = users[t.tokenable_id]
           /\ last'.result # "E_INVALID_EMAIL_TOKEN"
                => users'[t.tokenable_id].email = t.email ]_vars

\* a stored token was presented for an email another owner has confirmed
C8_Witness ==
  /\ last.op = "verifyEmail" /\ last.result = "E_INVALID_EMAIL_TOKEN"
  /\ \E t \in tokens :
       /\ t.id = last.token /\ ~(t.expires_at < now)
       /\ users[t.tokenable_id].unverifiedEmail = t.email
       /\ HeldByOther(t.tokenable_id, t.email)

\* C9: a token that its owner had when a later updateUserEmail on that
\* owner returned ISSUED_TOKEN or REVERTED never verifies: verifyEmail
\* fails with E_INVALID_EMAIL_TOKEN and no account changes.
C9_Stale ==
  [][ (last'.op = "verifyEmail" /\ last'.token \in stale) => \A v \in WellFormed :
        (/\ NamedOn[v].exact = last'.token
         /\ \E forUpdate \in BOOLEAN, lax \in Builds(v) : VerifyEmail(v, forUpdate, lax))
        => last'.result = "E_INVALID_EMAIL_TOKEN" /\ users' = users ]_vars

\* a superseded token was presented while another token is pending
C9_Witness ==
  /\ last.op = "verifyEmail" /\ last.token \in stale
  /\ last.result = "E_INVALID_EMAIL_TOKEN"
  /\ \E u \in UserIds : users[u].exists /\ users[u].unverifiedEmail # Null
                        /\ Owned(u) # {}

\* C10: provider.verify returns a record iff the value decodes, a row with
\* the decoded identifier is stored (the row the id column finds for it: the
\* column compares numbers, so "01" finds row 1), the hash of the decoded
\* secret is the stored hash and the row is not expired (isExpired is
\* false); otherwise it returns null; it has no third outcome.
C10_Verify ==
  [][ last'.op = "verify" => \A v \in Values \cup Inexact : \A lax \in Builds(v) :
        (last'.token = (IF lax THEN NamedOn[v].lax ELSE NamedOn[v].exact)
           /\ ProviderVerify(v, lax))
        => /\ last'.result \in {"token", "null"}
           /\ last'.result = "token"
                <=> /\ decode(v) # NullDecoded
                    /\ \E r \in tokens :
                         /\ r.id = integerOf(decode(v).identifier, lax)
                         /\ r.hash = sha256(decode(v).secret)
                         /\ ~(r.expires_at < now) ]_vars

\* a value accepted at the last moment of its life, beside another token
C10_Witness ==
  /\ last.op = "verify" /\ last.result = "token" /\ last.had >= 2
  /\ \E r \in tokens : r.id = last.token /\ r.expires_at = now

\* the presented value names the stored row and carries its secret
Carries(v, r) ==
  \E sec \in Secrets : v = computeValue(Number(r.id), sec) /\ sha256(sec) = r.hash

\* C11 as stated: when the current time equals the token's expiresAt,
\* verify with the correct secret returns null.
C11_AsStated ==
  [][ last'.op = "verify" => \A v \in WellFormed : \A r \in tokens :
        (Carries(v, r) /\ r.expires_at = now /\ \E lax \in Builds(v) : ProviderVerify(v, lax))
        => last'.result = "null" ]_vars

\* C11 amended: verify accepts a token while expiresAt >= now: when the
\* current time equals the token's expiresAt, verify with the correct
\* secret still returns the record; at every later time it returns null.
C11_Boundary ==
  [][ last'.op = "verify" => \A v \in WellFormed : \A r \in tokens :
        (Carries(v, r) /\ \E lax \in Builds(v) : ProviderVerify(v, lax))
        => /\ r.expires_at >= now => last'.result = "token" /\ last'.token = r.id
           /\ r.expires_at < now => last'.result = "null" ]_vars

\* a token issued at 0 is accepted one lifetime later
C11_Witness ==
  /\ last.op = "verify" /\ last.result = "token" /\ now = ExpiresIn
  /\ \E r \in tokens : r.id = last.token /\ r.created_at = 0 /\ r.expires_at = now

\* C12: a token is not expired at issuance nor at any time up to and
\* including expiresAt, is expired at every time after expiresAt, and once
\* expired stays expired as the clock advances.
C12_Expiry ==
  /\ [](\A r \in tokens :
          /\ (r.created_at <= now /\ now <= r.created_at + ExpiresIn)
               => ~isExpired(r, now)
          /\ now > r.created_at + ExpiresIn => isExpired(r, now))
  /\ [][ /\ \A r \in tokens' \ tokens : ~isExpired(r, now')
         /\ \A r \in tokens \cap tokens' : isExpired(r, now) => isExpired(r, now')
       ]_vars

\* one token past its life beside one at the last moment of its life
C12_Witness ==
  \E r \in tokens : \E q \in tokens :
    /\ isExpired(r, now) /\ ~isExpired(q, now)
    /\ q.expires_at = now /\ q.created_at = r.expires_at

\* ------------------------------------------------------- throttled issuance
\* the owner's youngest record, by the rows themselves
HasToken(ts, u) == \E r \in ts : r.tokenable_id = u
YoungestAt(ts, u) ==
  (CHOOSE r \in ts : r.tokenable_id = u /\
     \A q \in ts : q.tokenable_id = u => q.created_at <= r.created_at).created_at
\* the cooldown of w seconds after the youngest record is still running
Cooling(ts, u, w) == HasToken(ts, u) /\ YoungestAt(ts, u) + w > now
\* exactly one record was added for the owner and none removed
OneMore(ts, post, u) ==
  \E r \in post \ ts : post = ts \cup {r} /\ r.tokenable_id = u /\ r.created_at = now

\* what C14 promises of one throttled issuance against the store ts
ThrottledPost(ts, post, u, w) ==
  /\ last'.result = "null" <=> Cooling(ts, u, w)
  /\ last'.result = "null" => post = ts
  /\ last'.result # "null" => last'.result = "token" /\ OneMore(ts, post, u)

\* C14: a throttled issuance of either flow returns null exactly when the
\* owner has a stored token whose newest createdAt plus the cooldown is later
\* than now; a null leaves both token stores as they were, and any other
\* outcome adds exactly one record for the owner and removes none.
C14_Throttled ==
  [][ /\ last'.arg = "throttled" /\ last'.op = "createEmailVerificationToken" =>
          \A d \in Windows \cup {Undefined}, s \in OneSecret :
            /\ CreateEmailVerificationToken(Found(1), TRUE, d, s) =>
                 ThrottledPost(tokens, tokens', 1, windowOf(d)) /\ resetTokens' = resetTokens
            /\ CreateEmailVerificationTokenFixed(Found(1), TRUE, d, s) =>
                 ThrottledPost(tokens, tokens', 1, FixedThrottle) /\ resetTokens' = resetTokens
      /\ last'.arg = "throttled" /\ last'.op = "createPasswordResetToken" =>
          \A d \in Windows \cup {Undefined}, s \in OneSecret :
            CreatePasswordResetToken(1, TRUE, d, s) =>
              ThrottledPost(resetTokens, resetTokens', 1, windowOf(d)) /\ tokens' = tokens
    ]_vars

\* both flows have refused a throttled issuance inside the cooldown and each
\* store holds the one record that caused it; the clock has moved since
C14_Witness ==
  /\ last.arg = "throttled" /\ last.result = "null"
  /\ now > 0
  /\ Cardinality(tokens) = 1 /\ Cardinality(resetTokens) = 1

\* one issuance with the default window against the store ts, by where it
\* falls in the sequence of C15
FirstCall(ts, post) ==
  ~HasToken(ts, 1) =>
    last'.result = "token" /\ Cardinality(post) = 1
SecondCall(ts, post) ==
  (Cardinality(ts) = 1 /\ now - YoungestAt(ts, 1) < ThrottleDuration) =>
    last'.result = "null" /\ post = ts /\ Cardinality(post) = 1
ThirdCall(ts, post) ==
  (Cardinality(ts) = 1 /\ now - YoungestAt(ts, 1) >= ThrottleDuration) =>
    /\ last'.result = "token"
    /\ last'.token \notin {r.id : r \in ts}
    /\ Cardinality(post) = 2
PlainCall(ts, post) ==
  (HasToken(ts, 1) /\ now - YoungestAt(ts, 1) < ThrottleDuration) =>
    /\ last'.result = "token"
    /\ last'.token \notin {r.id : r \in ts}
    /\ Cardinality(post) = Cardinality(ts) + 1
Sequenced(ts, post, shouldThrottle) ==
  IF shouldThrottle
  THEN FirstCall(ts, post) /\ SecondCall(ts, post) /\ ThirdCall(ts, post)
  ELSE PlainCall(ts, post)

\* C15: for an owner without a token, a throttled issuance returns a token; a
\* second one inside the cooldown of that token returns null and leaves
\* exactly one record stored; a third one after the cooldown has elapsed
\* returns a new token; an issuance without throttling inside the window
\* creates a token all the same. It holds for both flows.
C15_Sequence ==
  [][ /\ last'.op = "createEmailVerificationToken" =>
          \A b \in BOOLEAN, s \in OneSecret :
            (\/ CreateEmailVerificationToken(Found(1), b, Undefined, s)
             \/ CreateEmailVerificationTokenFixed(Found(1), b, Undefined, s))
              => Sequenced(tokens, tokens', b)
      /\ last'.op = "createPasswordResetToken" =>
          \A b \in BOOLEAN, s \in OneSecret :
            CreatePasswordResetToken(1, b, Undefined, s)
              => Sequenced(resetTokens, resetTokens', b)
    ]_vars

\* the third call has answered: the record of the first call, made at 0, is
\* stored next to the one issued now, a full window later
C15_Witness ==
  /\ last.op = "createEmailVerificationToken"
  /\ last.arg = "throttled" /\ last.result = "token"
  /\ now = ThrottleDuration
  /\ {r.created_at : r \in tokens} = {0, ThrottleDuration}

\* seconds since the owner's newest stored record was created
Age(ts, u) == now - YoungestAt(ts, u)
\* what C16 promises of a throttled issuance that was passed the window d
\* (Undefined: none passed) while the owner has a stored token
WindowPassed(ts, d) ==
  HasToken(ts, 1) =>
    (last'.result = "null" <=>
       Age(ts, 1) < (IF d = Undefined THEN ThrottleDuration ELSE d))

\* C16 as stated: createEmailVerificationToken(true, d) and
\* createPasswordResetToken(true, d), called t seconds after the owner's
\* newest token was created, return null exactly when t < d, whatever d is,
\* and with a window of 60 seconds when no d is passed. The mixin of
\* with_email_management.ts takes no d and always waits 60 seconds.
C16_AsStated ==
  [][ /\ last'.arg = "throttled" /\ last'.op = "createEmailVerificationToken" =>
          \A d \in Windows \cup {Undefined}, s \in OneSecret :
            (\/ CreateEmailVerificationToken(Found(1), TRUE, d, s)
             \/ CreateEmailVerificationTokenFixed(Found(1), TRUE, d, s))
              => WindowPassed(tokens, d)
      /\ last'.arg = "throttled" /\ last'.op = "createPasswordResetToken" =>
          \A d \in Windows \cup {Undefined}, s \in OneSecret :
            CreatePasswordResetToken(1, TRUE, d, s) => WindowPassed(resetTokens, d)
    ]_vars

\* the same promise of the two mixins that take the window as an argument
C16_Passed ==
  [][ /\ last'.arg = "throttled" /\ last'.op = "createEmailVerificationToken" =>
          \A d \in Windows \cup {Undefined}, s \in OneSecret :
            CreateEmailVerificationToken(Found(1), TRUE, d, s) => WindowPassed(tokens, d)
      /\ last'.arg = "throttled" /\ last'.op = "createPasswordResetToken" =>
          \A d \in Windows \cup {Undefined}, s \in OneSecret :
            CreatePasswordResetToken(1, TRUE, d, s) => WindowPassed(resetTokens, d)
    ]_vars

\* ------------------------------------------------------------ password reset
\* the stored password token the value v names: its identifier finds the
\* row and its secret is the row's. The values presented here are read
\* alike by every build of the database.
RowOf(ts, v) ==
  {r \in ts : /\ decode(v) # NullDecoded
              /\ r.id = integerOf(decode(v).identifier, FALSE)
              /\ r.hash = sha256(decode(v).secret)}
\* v is the value of a stored, unexpired token whose owner exists
Live(ts, v) ==
  \E r \in RowOf(ts, v) : r.expires_at >= now /\ users[r.tokenable_id].exists
OwnerOf(ts, v) == (CHOOSE r \in RowOf(ts, v) : TRUE).tokenable_id
\* the identifier each value names, worked out once
Named == [v \in Values |-> presentedId(v, FALSE)] @@ << >>
\* only the owner's password may differ, and it is p
OnlyPasswordOf(u, p) ==
  /\ passwords'[u] = p
  /\ \A o \in UserIds \ {u} : passwords'[o] = passwords[o]

\* C17: resetPassword with the value of any stored, unexpired token whose
\* owner exists succeeds, sets that owner's password to the new password and
\* changes no other owner's; once the caller has cleared the tokens, no
\* password-reset token of the owner is left, and the other owners keep
\* theirs.
C17_Reset ==
  [][ /\ last'.op = "resetPassword" =>
          \A v \in WellFormed, p \in Passwords :
            (last'.arg = p /\ last'.token = Named[v] /\ Live(resetTokens, v)
               /\ \E lax \in Builds(v) : ResetPassword(v, p, lax)) =>
              /\ last'.result = "ok"
              /\ last'.owner = OwnerOf(resetTokens, v)
              /\ OnlyPasswordOf(OwnerOf(resetTokens, v), p)
              /\ resetTokens' = deleteAll(resetTokens, OwnerOf(resetTokens, v))
              /\ tokensOf(resetTokens', OwnerOf(resetTokens, v)) = {}
      /\ last'.op = "User.resetPassword" =>
          \A v \in WellFormed :
            (last'.token = Named[v] /\ Live(resetTokens, v)
               /\ \E lax \in Builds(v) : UserResetPassword(v, NewPassword, lax)) =>
              /\ last'.result = "ok"
              /\ last'.owner = OwnerOf(resetTokens, v)
              /\ OnlyPasswordOf(OwnerOf(resetTokens, v), NewPassword)
    ]_vars

\* an owner who held two tokens has reset the password with the second one:
\* the password is the new one, the other account kept its own while holding
\* an account, and no token of the owner is left
C17_Witness ==
  /\ last.op = "resetPassword" /\ last.result = "ok"
  /\ last.had = 2 /\ last.token = 2
  /\ passwords[last.owner] = NewPassword
  /\ \E o \in UserIds \ {last.owner} : users[o].exists /\ passwords[o] = InitialPassword
  /\ tokensOf(resetTokens, last.owner) = {}

\* why a presented value cannot reset a password: it names no stored token
\* with that secret (malformed, unknown or deleted identifier, wrong secret),
\* the token has expired, or its owner is gone
Dead(ts, v) ==
  \A r \in RowOf(ts, v) : r.expires_at < now \/ ~users[r.tokenable_id].exists
ResetFailed(c) ==
  c.op \in {"resetPassword", "User.resetPassword"} /\ c.result # "ok"

\* C18: resetPassword with a value that is invalid, expired or deleted, or
\* whose owner no longer exists, raises E_INVALID_PASSWORD_TOKEN (put the
\* other way round: a call that does not raise it was given the value of a
\* stored, unexpired token whose owner exists); and every resetPassword that
\* fails leaves all passwords, all stored tokens of both tables and the
\* accounts as they were before the call.
C18_Failed ==
  [][ /\ (/\ last'.op \in {"resetPassword", "User.resetPassword"}
          /\ last'.result # "E_INVALID_PASSWORD_TOKEN") =>
          \A v \in Values, p \in Passwords :
            (/\ last'.arg = p /\ last'.token = Named[v]
             /\ \E lax \in Builds(v) : ResetPassword(v, p, lax) \/ UserResetPassword(v, p, lax)) =>
              ~Dead(resetTokens, v)
      /\ ResetFailed(last') =>
          /\ last'.result = "E_INVALID_PASSWORD_TOKEN"
          /\ passwords' = passwords
          /\ resetTokens' = resetTokens /\ tokens' = tokens
          /\ users' = users
    ]_vars

\* a reset was refused for a token whose owner had been deleted: the token is
\* still stored and unexpired, and another account's password had already
\* been changed and stays changed
C18_Witness ==
  /\ ResetFailed(last)
  /\ \E r \in resetTokens :
       /\ r.id = last.token /\ r.expires_at >= now
       /\ ~users[r.tokenable_id].exists
  /\ \E o \in UserIds : users[o].exists /\ passwords[o] = NewPassword

\* ------------------------------------------------------------- one error
\* verifyEmail threw: a TypeError is the helper's, thrown once verifyEmail
\* has returned
EmailFailed(c) ==
  c.op \in {"verifyEmail", "User.verifyEmail"} /\ c.result \notin {"ok", "TypeError"}
Untouched ==
  /\ users' = users /\ passwords' = passwords
  /\ tokens' = tokens /\ resetTokens' = resetTokens

\* C13: every failing verifyEmail throws the one E_INVALID_EMAIL_TOKEN (same
\* code, message and status) and every failing resetPassword the one
\* E_INVALID_PASSWORD_TOKEN, whatever made it fail, and changes nothing: the
\* outcome of a failing call says nothing about its cause.
C13_SameError ==
  [][ /\ EmailFailed(last') =>
          raised(last'.result) = InvalidEmailToken /\ Untouched
      /\ ResetFailed(last') =>
          raised(last'.result) = InvalidPasswordToken /\ Untouched
    ]_vars

\* a verifyEmail was refused although its token is stored, unexpired and of
\* an existing owner, and nobody else holds the email: the owner's pending
\* email is no longer the one the token was issued for
C13_Witness ==
  /\ EmailFailed(last)
  /\ \E r \in tokens :
       /\ r.id = last.token /\ r.expires_at >= now
       /\ users[r.tokenable_id].exists
       /\ users[r.tokenable_id].unverifiedEmail # r.email
       /\ ~HeldByOther(r.tokenable_id, r.email)

\* ------------------------------------------------------------- single use
\* the callers whose call replaced the owner's password by another one
Changers == {p \in Procs : procs[p].type = "ok" /\ procs[p].changed}
SameValue == \A p \in Procs : \A q \in Procs : procs[p].value = procs[q].value

\* C19 as stated: when two resetPassword calls present the same token, each
\* followed by the caller's clearPasswordResetTokens, at most one of them
\* changes the password, however their steps interleave. resetPassword
\* verifies the token before it opens its transaction and the token is deleted
\* only after it has returned, so both calls can get past the verification.
C19_AsStated ==
  (AllDone /\ SameValue) => Cardinality(Changers) <= 1

\* the callers whose verifyEmail promoted the pending email: it returned, or
\* it returned nothing and the caller's clear threw
Promoters == {p \in Procs : procs[p].type \in {"ok", "TypeError"}}
\* every caller that did not promote got the invalid-token error
OthersRefused ==
  \A p \in Procs \ Promoters : procs[p].type = "E_INVALID_EMAIL_TOKEN"

\* C20 as stated: once one verifyEmail has promoted the owner's pending email,
\* every later or concurrent verifyEmail with the same or another token of
\* the owner for that email fails with E_INVALID_EMAIL_TOKEN, cleared tokens
\* or not: of two calls at most one promotes. The verifyEmail of
\* with_email_management.ts reads the owner without a lock, so two calls that
\* overlap both find the pending email and both save.
C20_AsStated ==
  AllDone => Cardinality(Promoters) <= 1 /\ OthersRefused

\* the same promise of the verifyEmail that selects the owner for update
C20_ForUpdate ==
  (AllDone /\ \A p \in Procs : procs[p].forUpdate)
    => Cardinality(Promoters) <= 1 /\ OthersRefused

\* ------------------------------------------------------------- the providers
\* a provider call that got past #ensureIsPersisted
Answered(c, ops) == c.op \in ops /\ c.result # "error"
OwnerScoped == {"find", "delete", "deleteAll", "all", "lastCreatedAt"}
\* the identifier belongs to a stored row of somebody else than u
OfAnother(ts, u, identifier) ==
  \E r \in ts : r.id = identifier /\ r.tokenable_id # u
RowsOfOthers(ts, u) == {r \in ts : r.tokenable_id # u}
Range(q) == {q[i] : i \in DOMAIN q}

\* C21: find, delete, deleteAll, all and lastCreatedAt for owner A never
\* return, count or remove a record of another owner: the rows of the others
\* stay stored, every returned record is A's, the count of deleted rows is the
\* number of A's rows that went, the date is one of A's; and with the
\* identifier of another owner's token find returns null and delete removes
\* nothing and returns 0.
C21_Scoped ==
  [][ Answered(last', OwnerScoped) =>
        \A tb \in {last'.arg} : \A a \in {last'.owner} :
          /\ RowsOfOthers(rowsIn(tb)', a) = RowsOfOthers(rowsIn(tb), a)
          /\ \A t \in Range(returned'.rows) : t.tokenableId = a
          /\ returned'.count = Cardinality(tokensOf(rowsIn(tb), a))
                                 - Cardinality(tokensOf(rowsIn(tb)', a))
          /\ returned'.date # NullDate =>
               \E r \in tokensOf(rowsIn(tb), a) : r.created_at = returned'.date
          /\ OfAnother(rowsIn(tb), a, last'.token) =>
               /\ last'.op = "find" => returned'.rows = << >>
               /\ last'.op = "delete" =>
                    returned'.count = 0 /\ rowsIn(tb)' = rowsIn(tb)
          /\ last'.op = "deleteAll" => tokensOf(rowsIn(tb)', a) = {}
    ]_vars

\* owner 1, holding a token of its own, has just called delete with the
\* identifier of a token of owner 2: nothing was deleted
C21_Witness ==
  /\ last.op = "delete" /\ last.owner = 1 /\ last.result = "count"
  /\ OfAnother(rowsIn(last.arg), 1, last.token)
  /\ tokensOf(rowsIn(last.arg), 1) # {}
  /\ returned.count = 0

\* the user arguments #ensureIsPersisted must refuse
BadOwners == {user \in OwnerArgs : ~user.instance \/ user.id = 0}
\* some provider call with that user argument makes this step
CalledWith(tb, user) ==
  \/ \E s \in OneSecret : ProviderCreate(tb, user, "c@z.com", s, Undefined, 0)
  \/ \E i \in 1..MaxTokens : ProviderFind(tb, user, i) \/ ProviderDelete(tb, user, i)
  \/ ProviderDeleteAll(tb, user)
  \/ ProviderAll(tb, user)
  \/ ProviderLastCreatedAt(tb, user)
StoresKept ==
  /\ tokens' = tokens /\ nextId' = nextId
  /\ resetTokens' = resetTokens /\ nextResetId' = nextResetId

\* C22: create, find, delete, deleteAll, all and lastCreatedAt called with a
\* user that is not an instance of the provider's model, or that has no
\* primary key value, throw; a call that throws returns nothing and leaves
\* both token tables and their counters as they were.
C22_Refused ==
  [][ /\ \A tb \in Tables, user \in BadOwners :
           CalledWith(tb, user) => last'.result = "error"
      /\ last'.result = "error" =>
           /\ returned'.error # "none"
           /\ returned'.rows = << >> /\ returned'.count = 0
           /\ returned'.date = NullDate
           /\ StoresKept
    ]_vars

\* create was refused for an object that is not a user, while the table held
\* tokens: they are all still there
C22_Witness ==
  /\ last.op = "create" /\ last.result = "error"
  /\ returned.error = "E_RUNTIME_EXCEPTION: Invalid user object"
  /\ Cardinality(rowsIn(last.arg)) = MaxTokens

\* ------------------------------------------------------------- transactions
AllTokens == tokens \cup resetTokens
InTrx == {"trx.create", "trx.delete", "trx.deleteAll"}

\* C23: a token created or deleted through a user bound to an open
\* transaction is not in, or gone from, the table before the commit; at the
\* commit the table becomes what the transaction made of the rows it started
\* from; after a rollback the tables hold exactly the records they held when
\* the transaction began. Without a transaction a create or delete is in the
\* table as soon as it returns.
C23_Transactional ==
  /\ [](TrxOpen => AllTokens = start.tokens)
  /\ [][ /\ last'.op \in InTrx => AllTokens' = AllTokens
         /\ last'.op = "rollback" => AllTokens' = start.tokens
         /\ last'.op = "commit" =>
              AllTokens' = (start.tokens \ procs[TrxOwner].deleted)
                             \cup procs[TrxOwner].inserted
         /\ \A tb \in Tables :
              /\ (last'.op = "create" /\ last'.result = "token" /\ last'.arg = tb) =>
                   \E r \in rowsIn(tb)' \ rowsIn(tb) : r.id = last'.token
              /\ (last'.op \in {"delete", "deleteAll"} /\ last'.arg = tb) =>
                   Cardinality(rowsIn(tb)') =
                     Cardinality(rowsIn(tb)) - returned'.count
       ]_vars

\* a transaction that had deleted a stored token and created another was
\* rolled back: the stored token is there and the other is not
C23_Witness ==
  /\ last.op = "rollback" /\ last.token = 1 /\ last.had = 1
  /\ Cardinality(rowsIn(last.arg)) = 1
  /\ \A r \in rowsIn(last.arg) : r.id = 1
  /\ nextIdIn(last.arg) = 3

\* ----------------------------------------------------------- stored records
Issued == last.op = "createEmailVerificationToken" /\ last.result = "token"

\* C24: a successful issuance adds exactly one row, whose identifier no
\* stored row has and none had before, and keeps every row there was; the
\* owner has one token more than before. No two stored rows share an
\* identifier, and a row that stays stored keeps its owner, email, hash,
\* created_at and expires_at over every step: rows only leave by deletion.
C24_Immutable ==
  /\ [](\A r, q \in tokens : r.id = q.id => r = q)
  /\ [](\A r \in tokens : r.id < nextId)
  /\ [][ /\ \A r \in tokens' : \A q \in tokens : r.id = q.id => r = q
         /\ \A r \in tokens' \ tokens : r.id >= nextId
         /\ Issued' =>
              /\ tokens \subseteq tokens'
              /\ Cardinality(tokens' \ tokens) = 1
              /\ \A r \in tokens' \ tokens :
                   /\ r.id = last'.token
                   /\ r.tokenable_id = last'.owner
                   /\ \A q \in tokens : q.id # r.id
              /\ Cardinality(tokensOf(tokens', last'.owner)) = last'.had + 1
       ]_vars

\* the second of two issuances for one owner: two tokens of that owner stored
C24_Witness ==
  /\ Issued /\ last.had = 1
  /\ Cardinality(tokensOf(tokens, last.owner)) = 2

\* ------------------------------------------------------------------ lifetime
\* the lifetime a call asks for: its own expiresIn when given, else the default
ttlGiven(expiresIn) == IF expiresIn = Undefined THEN ExpiresIn ELSE expiresIn

\* C25: the row a create stores expires exactly its lifetime after it was
\* created (expires_at = created_at + ttl, the ttl being the call's expiresIn
\* if given, else the provider default), also when the clock advances while
\* create runs. Stated as the claim has it; the code does not keep it.
C25_AsStated ==
  [][ \A tb \in Tables, u \in UserIds, s \in OneSecret, e \in TtlArgs, d \in Drift :
        (ProviderCreate(tb, Persisted(u), "c@z.com", s, e, d)
           /\ last'.result = "token") =>
          \A r \in rowsIn(tb)' \ rowsIn(tb) :
            r.expires_at = r.created_at + ttlGiven(e)
    ]_vars

\* C25, the clock alone: every stored row would live for one of the lifetimes
\* create can take, the default or the call's own; a clock that moves between
\* the two readings of create makes a row live shorter than either
C25_ClockOnly ==
  \A r \in AllTokens :
    r.expires_at - r.created_at \in {ExpiresIn \div 2, ExpiresIn}

\* ------------------------------------------------------------ unique emails
\* the callers whose token is for the email both owners are after
After(email) ==
  {p \in Procs : procs[p].token # NullToken /\ procs[p].token.email = email}

\* the callers whose verifyEmail made the email of their token the confirmed
\* email of their owner: the call returned and the row its save left has
\* that email
Switched ==
  {p \in Promoters : procs[p].saved.exists /\ procs[p].saved.email = procs[p].token.email}

C26_Refused ==
  /\ AllDone
  /\ \E p, q \in After(RaceEmail) :
       /\ procs[p].token.tokenable_id # procs[q].token.tokenable_id
       /\ p \in Switched /\ procs[q].type = "E_UNIQUE"
       /\ procs[q].row.unverifiedEmail = RaceEmail
       /\ users[procs[p].token.tokenable_id].email = RaceEmail
       /\ users[procs[q].token.tokenable_id].email # RaceEmail

\* the INSERT of a held instance landed between the DELETE and the INSERT of
\* updateUserEmail: the first owner waits for LastEmail and has the token
\* of the held instance for RaceEmail next to the token of the call
C26_Between ==
  /\ procs[Updater].pc = "done" /\ procs[Updater].type = "ISSUED_TOKEN"
  /\ users[1].unverifiedEmail = LastEmail
  /\ {<< t.id, t.email >> : t \in tokensOf(tokens, 1)}
       = {<< 2, RaceEmail >>, << 3, LastEmail >>}

\* ------------------------------------------------------- no pending email
IssuanceFor(c, u) == c.op = "createEmailVerificationToken" /\ c.owner = u
NoPending(c) ==
  \/ c.op = "updateUserEmail" /\ c.result = "REVERTED"
  \/ c.op = "verifyEmail" /\ c.result \in {"ok", "TypeError"}

\* C27 as stated: createEmailVerificationToken for an owner whose row has no
\* pending email raises a RuntimeException and stores nothing, and so does an
\* issuance that follows a REVERTED updateUserEmail or a successful
\* verifyEmail. The method reads the pending email of the instance it is
\* called on: an instance loaded before the revert or the verification still
\* has one and gets a token for it.
C27_AsStated ==
  [][ \A u \in UserIds :
        /\ (IssuanceFor(last', u) /\ users[u].unverifiedEmail = Null) =>
             /\ last'.result = "RuntimeException"
             /\ tokens' = tokens /\ nextId' = nextId
        /\ (IssuanceFor(last', u) /\ NoPending(last) /\ last.owner = u) =>
             last'.result = "RuntimeException" /\ tokens' = tokens
    ]_vars

\* C27: createEmailVerificationToken on an instance without a pending email
\* raises a RuntimeException and stores nothing, with and without throttling
\* and also when a token of the owner is young enough to throttle; on an
\* instance with a pending email it does not raise. A REVERTED
\* updateUserEmail and a successful verifyEmail leave the row without a
\* pending email, so an issuance on an instance loaded after either raises.
C27_NoPendingEmail ==
  /\ [](NoPending(last) => users[last.owner].unverifiedEmail = Null)
  /\ [][ \A u \in UserIds :
           /\ (IssuanceFor(last', u) /\ last'.pending = Null) =>
                /\ last'.result = "RuntimeException"
                /\ tokens' = tokens /\ nextId' = nextId
           /\ (IssuanceFor(last', u) /\ last'.pending # Null) =>
                last'.result # "RuntimeException"
           /\ (IssuanceFor(last', u) /\ NoPending(last) /\ last.owner = u
                 /\ last'.pending = users[u].unverifiedEmail) =>
                last'.result = "RuntimeException" /\ tokens' = tokens
       ]_vars

\* a throttled issuance raised on an instance without a pending email
\* although a token of that owner had just been created
C27_Witness ==
  /\ IssuanceFor(last, 1) /\ last.arg = "throttled"
  /\ last.result = "RuntimeException"
  /\ last.pending = Null /\ users[1].unverifiedEmail = Null
  /\ \E t \in tokensOf(tokens, 1) : t.created_at = now

\* ------------------------------------------------------------- the secret
Columns == {"id", "tokenable_id", "email", "hash", "created_at", "expires_at"}
Reads == {"verify", "find", "all"}

\* C28: a stored row has the hash among its columns and neither the secret
\* nor the value; the record create returns carries the value, which names
\* the new row and holds the secret the stored hash was made of; every record
\* that verify, find or all returns has no value.
C28_ValueOnlyFromCreate ==
  /\ \A r \in AllTokens :
       DOMAIN r = Columns /\ r.hash \in {sha256(s) : s \in Secrets}
  /\ Answered(last, Reads) =>
       \A i \in DOMAIN returned.rows : returned.rows[i].value = NullString
  /\ Answered(last, {"create"}) =>
       /\ Len(returned.rows) = 1
       /\ returned.rows[1].value # NullString
       /\ decode(returned.rows[1].value).identifier = StringOf(last.token)
       /\ sha256(decode(returned.rows[1].value).secret) = returned.rows[1].hash

\* verify accepted a value and returned the record of its row, without value
C28_Witness ==
  /\ last.op = "verify" /\ last.result = "token"
  /\ Len(returned.rows) = 1
  /\ returned.rows[1].identifier = last.token
  /\ returned.rows[1].value = NullString
  /\ \E r \in tokens : r.id = last.token /\ r.hash = returned.rows[1].hash

\* ------------------------------------------------------------ listing
\* the record is that of the stored row
RecordOf(rec, r) ==
  /\ rec.identifier = r.id /\ rec.tokenableId = r.tokenable_id
  /\ rec.email = r.email /\ rec.hash = r.hash
  /\ rec.createdAt = r.created_at /\ rec.expiresAt = r.expires_at

\* C29: all(owner) returns one record for each stored row of the owner,
\* expired or not, and nothing else, a record created later never after one
\* created earlier; lastCreatedAt(owner) returns the created_at of the
\* owner's newest stored row, and null when the owner has no row.
C29_Listing ==
  \A tb \in Tables : \A u \in UserIds :
    /\ (Answered(last, {"all"}) /\ last.arg = tb /\ last.owner = u) =>
         /\ Len(returned.rows) = Cardinality(tokensOf(rowsIn(tb), u))
         /\ \A r \in tokensOf(rowsIn(tb), u) :
              \E i \in DOMAIN returned.rows : RecordOf(returned.rows[i], r)
         /\ \A i, j \in DOMAIN returned.rows :
              i < j => returned.rows[i].createdAt >= returned.rows[j].createdAt
    /\ (Answered(last, {"lastCreatedAt"}) /\ last.arg = tb /\ last.owner = u) =>
         /\ tokensOf(rowsIn(tb), u) = {} => returned.date = NullDate
         /\ tokensOf(rowsIn(tb), u) # {} =>
              /\ \E r \in tokensOf(rowsIn(tb), u) : returned.date = r.created_at
              /\ \A r \in tokensOf(rowsIn(tb), u) : returned.date >= r.created_at

\* all returned two records of one owner, the younger first and the older,
\* which has expired, second
C29_Witness ==
  /\ Answered(last, {"all"})
  /\ Len(returned.rows) = 2
  /\ returned.rows[1].createdAt > returned.rows[2].createdAt
  /\ returned.rows[2].expiresAt < now
  /\ returned.rows[1].expiresAt >= now

\* ------------------------------------------------------------- round trip
Decoded == last.op = "decode" /\ Len(returned.rows) = 2
RoundTrip ==
  returned.rows[2] = [identifier |-> String(returned.rows[1].identifier),
                      secret |-> returned.rows[1].secret]

\* C30 as stated: for every identifier and every secret, decoding the value
\* built from them returns the identifier as a string and the same secret.
C30_AsStated == Decoded => RoundTrip

\* C30: for every identifier whose string form is not empty and every secret
\* that is not empty, decoding the value built from them returns the
\* identifier as a string and the same secret; the value built from the
\* empty string as identifier or from the empty secret decodes to null.
C30_RoundTrip ==
  Decoded =>
    IF String(returned.rows[1].identifier) = << >> \/ returned.rows[1].secret = << >>
    THEN returned.rows[2] = NullDecoded /\ last.result = "null"
    ELSE RoundTrip /\ last.result = "decoded"

\* a value was decoded whose identifier has several digits and whose secret
\* has a dot and a character of two bytes
C30_Witness ==
  /\ Decoded /\ RoundTrip
  /\ returned.rows[1].identifier = Number(4567)
  /\ returned.rows[1].secret = << 46, 195, 169 >>

\* the identifier was the string '12' of the tests, and came back as it was
C30_Text ==
  /\ Decoded /\ RoundTrip
  /\ returned.rows[1].identifier = Text(<< 49, 50 >>)
  /\ returned.rows[2].identifier = << 49, 50 >>

\* the identifier was the empty string and the secret was not empty: the
\* value starts with the separator and decode returned null
C30_EmptyIdentifier ==
  /\ Decoded /\ returned.rows[2] = NullDecoded
  /\ returned.rows[1].identifier = Text(<< >>)
  /\ returned.rows[1].secret # << >>
  /\ returned.rows[1].value[1] = DOT

\* ------------------------------------------------------------- decode
DecodedInput == last.op = "decode(value)" /\ Len(returned.rows) = 2
Dots(v) == {i \in 1..Len(v) : v[i] = DOT}
Left(v) == SubSeq(v, 1, firstDot(v) - 1)
Right(v) == SubSeq(v, firstDot(v) + 1, Len(v))
InAlphabet(cs) == \A i \in 1..Len(cs) : cs[i] < DOT
\* '<base64url>.<base64url>': one separator between two parts of the alphabet
\* that are not empty
WellShaped(v) ==
  /\ v # NullString /\ Cardinality(Dots(v)) = 1
  /\ Left(v) # << >> /\ InAlphabet(Left(v))
  /\ Right(v) # << >> /\ InAlphabet(Right(v))

\* C31: decode answers with null or with a pair, never otherwise; it answers
\* null for a value that is not a string, is empty, has no separator, has an
\* empty part before or after the first separator, or has a part with a
\* character outside the alphabet, several separators included; a pair is
\* returned only for a value of the shape '<base64url>.<base64url>', and is
\* then the two parts decoded.
C31_Decode ==
  DecodedInput =>
    \E v \in {returned.rows[1].value} : \E d \in {returned.rows[2]} :
      /\ last.result \in {"null", "decoded"}
      /\ last.result = "null" <=> d = NullDecoded
      /\ (v = NullString \/ v = << >>) => d = NullDecoded
      /\ (v # NullString /\ Dots(v) = {}) => d = NullDecoded
      /\ (v # NullString /\ Dots(v) # {} /\ (Left(v) = << >> \/ Right(v) = << >>))
           => d = NullDecoded
      /\ (v # NullString /\ Dots(v) # {}
            /\ (~InAlphabet(Left(v)) \/ ~InAlphabet(Right(v)))) => d = NullDecoded
      /\ d # NullDecoded =>
           /\ WellShaped(v)
           /\ urlEncode(d.identifier) = Left(v) /\ urlEncode(d.secret) = Right(v)

\* decode answered null for a value with two separators whose first two
\* parts alone would decode
C31_Witness ==
  /\ DecodedInput /\ last.result = "null"
  /\ returned.rows[1].value = << 12, 16, DOT, 24, 16, DOT, 24, 16 >>
  /\ decode(<< 12, 16, DOT, 24, 16 >>) # NullDecoded

\* ------------------------------------------------- another owner's email
\* updateUserEmail(u, E) was called while E was the confirmed email of o and
\* the confirmed and the pending email of u differed
ClaimsEmailOf(u, o) ==
  /\ last'.op = "updateUserEmail" /\ last'.owner = u
  /\ o # u /\ users[o].exists /\ users[o].email = last'.arg
  /\ users[u].email # users[u].unverifiedEmail

Claimed(u, o) ==
  /\ last'.result = "ISSUED_TOKEN"
  /\ users'[u].unverifiedEmail = last'.arg
  /\ users'[u].email = users[u].email
  /\ users'[o] = users[o]
  /\ \E t \in tokens' : t.id = last'.token /\ t.tokenable_id = u /\ t.email = last'.arg

\* C32 as stated: updateUserEmail(owner, E), E being the confirmed email of
\* another owner and the requester's email differing from its unverifiedEmail,
\* returns ISSUED_TOKEN, makes E the requester's unverifiedEmail and leaves
\* both confirmed emails as they were.
C32_AsStated ==
  [][\A u, o \in UserIds : ClaimsEmailOf(u, o) => Claimed(u, o)]_vars

\* C32: the same, for a requester whose unverifiedEmail is not E already; a
\* requester that has E pending gets SKIPPED and nothing changes.
C32_Claim ==
  [][\A u, o \in UserIds :
       ClaimsEmailOf(u, o) =>
         IF users[u].unverifiedEmail = last'.arg
         THEN last'.result = "SKIPPED" /\ users' = users /\ tokens' = tokens
         ELSE Claimed(u, o)]_vars

\* the requester has the confirmed email of the other owner as its pending
\* email, with a token for it, and the confirmed email it had
C32_Witness ==
  /\ last.op = "updateUserEmail" /\ last.result = "ISSUED_TOKEN"
  /\ \E o \in UserIds \ {last.owner} :
       /\ users[o].exists /\ users[o].email = last.arg
       /\ users[last.owner].unverifiedEmail = users[o].email
  /\ users[last.owner].email = last.email
  /\ last.email # last.unverifiedEmail /\ last.unverifiedEmail # Null

\* -------------------------------------------- throttle in a transaction
\* the open transaction holds a token of u, created through it less than the
\* window ago
IssuedInTrx(u) ==
  /\ TrxOpen
  /\ \E r \in procs[TrxOwner].inserted :
       r.tokenable_id = u /\ r.created_at + ThrottleDuration > now
\* a throttled issuance for u on that table was made through the transaction
TrxIssued(tb, u) == last'.op = "trx.issue" /\ last'.arg = tb /\ last'.owner = u
Refused == last'.result = "null" /\ procs' = procs

\* C33 as stated: a throttled issuance through an open transaction that has
\* created a token of the owner within the window returns null and creates
\* nothing, for email verification tokens as for password reset tokens.
C33_AsStated ==
  [][\A tb \in Tables, u \in UserIds :
       (TrxIssued(tb, u) /\ IssuedInTrx(u)) => Refused]_vars

\* C33, password reset tokens alone, whose lastCreatedAt asks the transaction
C33_Password ==
  [][\A u \in UserIds :
       (TrxIssued(PasswordTable, u) /\ IssuedInTrx(u)) => Refused]_vars

\* the second throttled createPasswordResetToken of a transaction was
\* refused: the transaction holds one token of the owner, the table none
C33_PasswordWitness ==
  /\ last.op = "trx.issue" /\ last.arg = PasswordTable /\ last.result = "null"
  /\ TrxOpen /\ resetTokens = {}
  /\ Cardinality({r \in procs[TrxOwner].inserted : r.tokenable_id = last.owner}) = 1

\* ------------------------------------------------------ the call that lost
\* two finished calls of verifyEmail held tokens of different owners for the
\* email, and p promoted its owner
LostTo(q, p) ==
  /\ p \in After(RaceEmail) /\ q \in After(RaceEmail)
  /\ procs[p].token.tokenable_id # procs[q].token.tokenable_id
  /\ procs[p].pc = "done" /\ procs[q].pc = "done"
  /\ p \in Promoters

\* C34 as stated: of two verifyEmail calls by different owners with the same
\* pending email, the one that is not promoted fails with
\* E_INVALID_EMAIL_TOKEN and not with an error of the storage.
C34_AsStated ==
  \A p, q \in Procs : LostTo(q, p) => procs[q].type = "E_INVALID_EMAIL_TOKEN"

\* C34, the rows: the owner of the call that lost keeps the confirmed and the
\* pending email its call found
C34_RowKept ==
  \A p, q \in Procs :
    (LostTo(q, p) /\ procs[q].type = "E_UNIQUE") =>
      users[procs[q].token.tokenable_id].email = procs[q].row.email

\* ------------------------------------------------------------ termination
\* the call holds the row of its owner
Holds(p) ==
  \/ held(lock, p)
  \/ FlowOf(p) = "verifyEmail" /\ procs[p].forUpdate /\ procs[p].pc = "found"

\* C35: every call of updateUserEmail, verifyEmail and resetPassword comes to
\* its end with an outcome, whatever the other call does, as long as each call
\* takes its steps; a call that has ended, by return or by error, holds no
\* row; no calls are left waiting for each other.
C35_Terminates ==
  /\ [](\A p \in Procs : procs[p].pc = "done" => (~Holds(p) /\ procs[p].type # Null))
  /\ <>[](AllDone /\ \A p \in Procs : ~Holds(p))

\* calls of two flows for two owners, each holding the row of its owner:
\* updateUserEmail gave the second owner, who had one email, RaceEmail as
\* the confirmed email; verifyEmail for the first owner, past its query for
\* another user with RaceEmail, waited with its save for that transaction
\* to end and was refused by the index; both rows are free
C35_Witness ==
  /\ AllDone /\ lock.holder = FreeLock.holder /\ Len(lock.order) = 2
  /\ \E p, q \in Procs :
       /\ FlowOf(p) = "updateUserEmail" /\ procs[p].owner = 2
       /\ procs[p].type = "ISSUED_TOKEN" /\ procs[p].row.email = RaceEmail
       /\ FlowOf(q) = "verifyEmail" /\ procs[q].forUpdate
       /\ procs[q].token.tokenable_id = 1 /\ procs[q].type = "E_UNIQUE"

\* both calls of updateUserEmail held the row in turn, one ended with the
\* error of the unique index, and the row is free
C35_Refused ==
  /\ AllDone /\ lock.holder = FreeLock.holder /\ Len(lock.order) = 2
  /\ \A p \in Procs : FlowOf(p) = "updateUserEmail"
  /\ procs[lock.order[1]].type = "E_UNIQUE"
  /\ procs[lock.order[2]].type # "E_UNIQUE"

\* a call of resetPassword that held the row of its owner ended with the
\* error of the database while a call of another flow for the same owner
\* waited for the row, which that call then held
C35_Failed ==
  /\ AllDone /\ lock.holder = FreeLock.holder /\ Len(lock.order) = 2
  /\ \E p, q \in Procs :
       /\ lock.order = << p, q >>
       /\ FlowOf(p) = "resetPassword" /\ procs[p].type = "E_STORAGE"
       /\ procs[p].token.tokenable_id = 1
       /\ FlowOf(q) = "updateUserEmail" /\ procs[q].owner = 1
       /\ procs[q].type = "ISSUED_TOKEN"

\* ------------------------------------------------- two throttled callers
\* the row a caller inserted
IssuedRow(p) == CHOOSE r \in rowsIn(procs[p].tb) : r.id = procs[p].token
Apart(a, b) == IF a >= b THEN a - b ELSE b - a

\* C36 as stated: of two concurrent throttled issuances for one owner that
\* has no token within the window, at most one creates a token: two callers
\* that both created one did so at least a window apart.
C36_AsStated ==
  \A p, q \in Procs :
    (/\ p # q /\ procs[p].tb = procs[q].tb
     /\ procs[p].type = "token" /\ procs[q].type = "token") =>
      Apart(IssuedRow(p).created_at, IssuedRow(q).created_at) >= ThrottleDuration

\* C36, one after the other: a caller that reads after the other has created
\* within the window gets null
C36_Serial ==
  [][\A p, q \in Procs :
       (/\ p # q /\ procs[p].tb = procs[q].tb /\ procs[q].type = "token"
        /\ IssuedRow(q).created_at + ThrottleDuration > now
        /\ procs[p].pc = "start" /\ procs'[p].pc # "start") =>
         procs'[p].type = "null" /\ tokens' = tokens /\ resetTokens' = resetTokens]_vars

\* ------------------------------------------------------- revoked tokens
\* the token a caller got past resetPassword's verification with is no longer
\* stored
Revoked(p) == \A r \in resetTokens : r.id # procs[p].token.id

\* C37 as stated: a flow whose token has been deleted by the time it locks
\* the owner row fails with the invalid-token error and changes nothing, also
\* when the deletion falls between its token check and its transaction.
\* resetPassword looks the token up once, before the transaction, and inside
\* the transaction reads only the owner, so it goes on to save the password.
C37_AsStated ==
  [][\A p \in Procs :
       (/\ procs[p].pc = "verified" /\ Revoked(p)
        /\ procs'[p].pc # "verified") =>
         /\ procs'[p].type = "E_INVALID_PASSWORD_TOKEN"
         /\ procs'[p].pc = "done"
         /\ passwords' = passwords]_vars

\* C37, what resetPassword does keep: a token that is already gone when the
\* flow checks it is refused and the password stays
C37_CheckedOnce ==
  [][\A p \in Procs :
       (/\ procs[p].pc = "start" /\ procs'[p].pc # "start"
        /\ \A lax \in Builds(procs[p].value) :
             providerVerify(resetTokens, procs[p].value, now, lax) = NullToken) =>
         /\ procs'[p].type = "E_INVALID_PASSWORD_TOKEN"
         /\ passwords' = passwords]_vars

\* ------------------------------------------------- failed reconciliation
\* the call ends with the error of the database
Threw(p) == procs[p].type = "E_STORAGE"

\* C38: when the owner save, the token deletion or the token insertion of a
\* reconciliation raises a storage error, the reconciliation is rolled back
\* and the error propagates: from the moment the call holds the owner row to
\* the moment it has ended with the error no step changes the stored owners
\* or the stored tokens, and the call ends with that error.
C38_RolledBack ==
  [][\A p \in Procs :
       /\ (held(lock, p) /\ (procs'[p].pc # "done" \/ procs'[p].type = "E_STORAGE"))
            => users' = users /\ tokens' = tokens
       /\ (Threw(p) /\ procs'[p] # procs[p])
            => procs'[p].pc = "done" /\ procs'[p].type = "E_STORAGE" /\ ~held(lock', p)]_vars

\* a Changed reconciliation that had saved the owner and deleted its tokens
\* when the insertion failed: the stored owner is the one it read and the
\* tokens it deleted are still stored
C38_Witness ==
  \E p \in Procs :
    /\ procs[p].pc = "done" /\ Threw(p)
    /\ procs[p].deleted # {}
    /\ procs[p].row # procs[p].freshUser
    /\ users[ConcOwner] = procs[p].freshUser
    /\ \A i \in procs[p].deleted : \E t \in tokens : t.id = i

\* ------------------------------------------------- throttle after deletion
IssueOp(tb) ==
  IF tb = EmailTable THEN "createEmailVerificationToken" ELSE "createPasswordResetToken"
ClearOp(tb) ==
  IF tb = EmailTable THEN "clearEmailVerificationTokens" ELSE "clearPasswordResetTokens"
\* tokens were issued to u in tb and all have been deleted: by the clear that
\* has just run, or u holds none after whatever ran before
Emptied(tb, u) ==
  /\ nextIdIn(tb) > 1
  /\ \/ last.op = ClearOp(tb) /\ last.owner = u
     \/ tokensOf(rowsIn(tb), u) = {}
\* the step is a throttled issuance for u in tb
ThrottledIssuance(tb, u) ==
  last'.op = IssueOp(tb) /\ last'.owner = u /\ last'.arg = "throttled"

\* C39 as stated: after all of an owner's tokens are deleted, by a clear or
\* by a Changed or Reverted reconciliation, the next throttled issuance for
\* that owner creates a token. After a Reverted reconciliation the owner has
\* no pending email and createEmailVerificationToken, called on an instance
\* loaded since, throws instead.
C39_AsStated ==
  [][\A tb \in Tables : \A u \in UserIds :
       (Emptied(tb, u) /\ ThrottledIssuance(tb, u)) =>
         last'.result = "token"]_vars

\* C39: the throttle decision depends only on the tokens stored for the
\* owner: once they are all deleted the next throttled issuance is not
\* refused by the throttle, however short the time since the previous
\* issuance. It creates a token dated now, except that
\* createEmailVerificationToken throws on an instance without a pending email.
C39_StoredOnly ==
  [][\A tb \in Tables : \A u \in UserIds :
       (Emptied(tb, u) /\ ThrottledIssuance(tb, u)) =>
         IF tb = EmailTable /\ last'.pending = Null
         THEN last'.result = "RuntimeException" /\ tokens' = tokens
         ELSE /\ last'.result = "token"
              /\ tb = EmailTable =>
                   \E r \in tokens' \ tokens :
                     r.id = last'.token /\ r.tokenable_id = u /\ r.created_at = now
              /\ tb = PasswordTable =>
                   \E r \in resetTokens' \ resetTokens :
                     r.id = last'.token /\ r.tokenable_id = u /\ r.created_at = now]_vars

\* a second token issued under the throttle at the second the first one was
\* issued, the first one having been deleted in between
C39_Witness ==
  \E tb \in Tables :
    /\ last.op = IssueOp(tb) /\ last.arg = "throttled" /\ last.result = "token"
    /\ last.token = 2
    /\ now = 0
    /\ \A r \in tokensOf(rowsIn(tb), last.owner) : r.id = 2
    /\ tokensOf(rowsIn(tb), last.owner) # {}

====
